---------------------------- MODULE Spec2Model ----------------------------
(***************************************************************************)
(* Model of the in-memory record stores of scan-actas-nacimiento:          *)
(*   - models/registro.py : RegistroActa, RegistroManager                  *)
(*   - app.py             : REGISTROS, guardar_registro, obtener_registros,*)
(*                          limpiar_registros                              *)
(* Each store is driven by several request threads.  A thread's position   *)
(* inside a call is kept in pc; the store lock is kept as its owner.       *)
(***************************************************************************)
EXTENDS Integers, Sequences, FiniteSets, TLC

(***************************************************************************)
(* Bounds and program constants                                            *)
(***************************************************************************)

\* Config.MAX_REGISTROS_MEMORIA (config.py:37) is 10000 in the source; the
\* model scales it down so that a full store is reachable.
MAX_REGISTROS_MEMORIA == 3

\* Number of sequential inserts that build the store two racing inserts meet.
MaxPrevios == 3

Threads == {"t1", "t2"}

\* No thread owns the lock.
NoOwner == "-"

\* Python's None as returned by dict.get on a missing key.
None == "<None>"

(***************************************************************************)
(* Record schema                                                           *)
(***************************************************************************)

\* Config.ENCABEZADOS / app.ENCABEZADOS: the 16 canonical columns, in order.
ENCABEZADOS ==
    << "Tomo", "Libro", "Foja", "Acta", "Entidad", "Municipio",
       "CURP", "Registrado", "Padre", "Madre", "FechaNacimiento",
       "Sexo", "FechaRegistro", "Oficial", "Folio", "FechaEscaneo" >>

Campos == { ENCABEZADOS[i] : i \in 1..Len(ENCABEZADOS) }

\* dict.get(k) and dict.get(k, default)
Get(d, k) == IF k \in DOMAIN d THEN d[k] ELSE None

GetDef(d, k, default) == IF k \in DOMAIN d THEN d[k] ELSE default

\* Python truthiness of a str-or-None value.
Truthy(v) == v /= None /\ v /= ""

\* a or b
Or(a, b) == IF Truthy(a) THEN a ELSE b

\* Mutant: datos.get(h) without the '' default.
Normalizar_SinDefecto(datos) == [ h \in Campos |-> Get(datos, h) ]

\* {h: datos.get(h, '') for h in ENCABEZADOS}
Normalizar(datos) == [ h \in Campos |-> GetDef(datos, h, "") ]

\* RegistroManager.crear_desde_dict: RegistroActa(**datos_normalizados)
crear_desde_dict(datos) == Normalizar(datos)

\* RegistroActa.to_dict: asdict(self)
to_dict(r) == [ h \in Campos |-> r[h] ]

\* RegistroActa.get_clave_unica: self.Folio or self.CURP
get_clave_unica(r) == Or(r.Folio, r.CURP)

\* Mutant: the key is the Folio alone.
clave_registro_SoloFolio(registro) == Get(registro, "Folio")

\* app._clave_registro: registro.get('Folio') or registro.get('CURP')
clave_registro(registro) == Or(Get(registro, "Folio"), Get(registro, "CURP"))

(***************************************************************************)
(* Inputs submitted by the clients                                         *)
(***************************************************************************)

T1 == "2024-01-01 10:00:00"
T2 == "2024-01-01 10:00:01"

CURP_A == "ABCD123456HTLXYZ01"
CURP_B == "WXYZ654321MTLABC02"

\* Dicts combining empty and non-empty Folio and CURP, with collisions on
\* either field.
EntradasIdentidad ==
    { [Folio |-> "123", CURP |-> "",  FechaEscaneo |-> T1],
      [Folio |-> "",    CURP |-> CURP_A,  FechaEscaneo |-> T1],
      [Folio |-> "123", CURP |-> CURP_A,  FechaEscaneo |-> T1],
      [Folio |-> "456", CURP |-> CURP_A,  FechaEscaneo |-> T1],
      [Folio |-> "123", CURP |-> CURP_B,  FechaEscaneo |-> T1],
      [Folio |-> "",    CURP |-> "",  FechaEscaneo |-> T1] }

\* Dicts with four distinct keys, enough to fill the store, scanned at
\* different times (two at the same second, one without timestamp), and a
\* dict without key.
EntradasCapacidad ==
    { [Folio |-> "123", FechaEscaneo |-> T2],
      [Folio |-> "456", FechaEscaneo |-> T1],
      [Folio |-> "789", FechaEscaneo |-> T2],
      [CURP |-> CURP_A],
      [Registrado |-> "SIN CLAVE", FechaEscaneo |-> T2] }

\* Dicts with unset canonical fields, other fields set, and a non-canonical key.
EntradasEsquema ==
    { [Folio |-> "123", Registrado |-> "JUAN PEREZ", Sexo |-> "H",
       FechaEscaneo |-> T1],
      [CURP |-> CURP_B, folio |-> "999", Padre |-> "PEDRO", FechaEscaneo |-> T2],
      [Registrado |-> "SIN CLAVE", FechaEscaneo |-> T1] }

Universos == { EntradasIdentidad, EntradasCapacidad, EntradasEsquema }

(***************************************************************************)
(* String order                                                            *)
(***************************************************************************)

\* Code points of the FechaEscaneo strings that occur.
CodePoints(s) ==
    CASE s = ""  -> << >>
      [] s = T1  -> <<50,48,50,52,45,48,49,45,48,49,32,49,48,58,48,48,58,48,48>>
      [] s = T2  -> <<50,48,50,52,45,48,49,45,48,49,32,49,48,58,48,48,58,48,49>>

RECURSIVE SeqLess(_, _)
\* Lexicographic a < b on code-point sequences (Python str.__lt__).
SeqLess(a, b) ==
    IF b = << >> THEN FALSE
    ELSE IF a = << >> THEN TRUE
    ELSE IF Head(a) /= Head(b) THEN Head(a) < Head(b)
    ELSE SeqLess(Tail(a), Tail(b))

StrLess(a, b) == SeqLess(CodePoints(a), CodePoints(b))

(***************************************************************************)
(* sorted(..., key=lambda r: r.get('FechaEscaneo', ''), reverse=...)       *)
(***************************************************************************)

FechaKey(r) == GetDef(r, "FechaEscaneo", "")

\* x goes before y in the result of a stable sort when its key is strictly
\* ahead of y's in the requested direction.
Antes(x, y, reverse) ==
    IF reverse THEN StrLess(FechaKey(y), FechaKey(x))
               ELSE StrLess(FechaKey(x), FechaKey(y))

\* Mutant: x goes in front of the elements whose key equals its own.
Insertar_EmpatesAlReves(acc, x, reverse) ==
    LET n == Cardinality({ i \in 1..Len(acc) : Antes(acc[i], x, reverse) })
    IN  SubSeq(acc, 1, n) \o <<x>> \o SubSeq(acc, n + 1, Len(acc))

\* Insert x into the sorted acc behind every element that does not have to
\* come after it (equal keys keep their order of arrival: the sort is stable).
Insertar(acc, x, reverse) ==
    LET n == Cardinality({ i \in 1..Len(acc) : ~Antes(x, acc[i], reverse) })
    IN  SubSeq(acc, 1, n) \o <<x>> \o SubSeq(acc, n + 1, Len(acc))

RECURSIVE SortedFrom(_, _, _)
SortedFrom(acc, seq, reverse) ==
    IF seq = << >> THEN acc
    ELSE SortedFrom(Insertar(acc, Head(seq), reverse), Tail(seq), reverse)

\* Mutant: the reverse flag is dropped.
sorted_SinReverse(seq, reverse) == SortedFrom(<< >>, seq, FALSE)

\* sorted(seq, key=..., reverse=reverse)
sorted(seq, reverse) == SortedFrom(<< >>, seq, reverse)

(***************************************************************************)
(* Strings and the regular expressions of the parsers                      *)
(***************************************************************************)

\* s[i:i+1] and s[i:] with positions counted from 1: the character at
\* position i, '' when the string has none there.
Car(s, i) == IF i >= 1 /\ i <= Len(s) THEN SubSeq(s, i, i) ELSE ""

Desde(s, i) == SubSeq(s, i, Len(s))

\* s[i:].startswith(sub)
EmpiezaEn(s, i, sub) ==
    /\ i >= 1
    /\ i + Len(sub) - 1 <= Len(s)
    /\ SubSeq(s, i, i + Len(sub) - 1) = sub

\* sub in s
Incluye(s, sub) == \E i \in 1..(Len(s) + 1) : EmpiezaEn(s, i, sub)

Minimo(S) == CHOOSE x \in S : \A y \in S : x <= y

Maximo(S) == CHOOSE x \in S : \A y \in S : x >= y

Digitos == {"0", "1", "2", "3", "4", "5", "6", "7", "8", "9"}

Mayusculas ==
    {"A", "B", "C", "D", "E", "F", "G", "H", "I", "J", "K", "L", "M",
     "N", "O", "P", "Q", "R", "S", "T", "U", "V", "W", "X", "Y", "Z"}

Minusculas ==
    {"a", "b", "c", "d", "e", "f", "g", "h", "i", "j", "k", "l", "m",
     "n", "o", "p", "q", "r", "s", "t", "u", "v", "w", "x", "y", "z"}

MayusculasAcentuadas == {"Á", "É", "Í", "Ó", "Ú", "Ü", "Ñ"}

MinusculasAcentuadas == {"á", "é", "í", "ó", "ú", "ü", "ñ"}

\* The strings of the model are written in the alphabet U+0000 to U+00FF;
\* the classes and the case tables below are those of Python on this
\* alphabet.

\* \s and str.strip(): the white space of the alphabet (tab, line feed,
\* vertical tab, form feed, carriage return, U+001C to U+001F, space,
\* U+0085, U+00A0).
Espacios ==
    {"\t", "\n", "", "\f", "\r", "", "", "", "", " ", "", " "}

\* The other characters of the alphabet that \w takes (str.isalnum).
OtrasLetras ==
    {"ª", "²", "³", "µ", "¹", "º", "¼", "½", "¾", "À", "Â", "Ã",
     "Ä", "Å", "Æ", "Ç", "È", "Ê", "Ë", "Ì", "Î", "Ï", "Ð", "Ò",
     "Ô", "Õ", "Ö", "Ø", "Ù", "Û", "Ý", "Þ", "ß", "à", "â", "ã",
     "ä", "å", "æ", "ç", "è", "ê", "ë", "ì", "î", "ï", "ð", "ò",
     "ô", "õ", "ö", "ø", "ù", "û", "ý", "þ", "ÿ"}

\* Membership of the one-character string c in a character class of the
\* patterns: \d, \s, \w, [\w\s], [A-Z0-9], [A-ZÁÉÍÓÚÜÑ\s], [^\n], [^,], [ ,;].
EnClase(c, clase) ==
    CASE clase = "\\d"      -> c \in Digitos
      [] clase = "\\s"      -> c \in Espacios
      [] clase = "\\w"      -> c \in Digitos \cup Mayusculas \cup Minusculas
                                     \cup MayusculasAcentuadas
                                     \cup MinusculasAcentuadas \cup OtrasLetras
                                     \cup {"_"}
      [] clase = "[\\w\\s]" -> c \in Digitos \cup Mayusculas \cup Minusculas
                                     \cup MayusculasAcentuadas
                                     \cup MinusculasAcentuadas \cup OtrasLetras
                                     \cup {"_"}
                                     \cup Espacios
      [] clase = "[A-Z0-9]" -> c \in Mayusculas \cup Digitos
      [] clase = "[A-ZÁÉÍÓÚÜÑ\\s]" ->
                               c \in Mayusculas \cup MayusculasAcentuadas \cup Espacios
      [] clase = "[^\\n]"   -> c /= "\n"
      [] clase = "[^,]"     -> c /= ","
      [] clase = "[ ,;]"    -> c \in {" ", ",", ";"}

RECURSIVE Racha(_, _, _)
\* Length of the longest run of characters of the class that starts at s[i].
Racha(s, i, clase) ==
    IF i >= 1 /\ i <= Len(s) /\ EnClase(Car(s, i), clase)
    THEN 1 + Racha(s, i + 1, clase)
    ELSE 0

RECURSIVE RachaAtras(_, _, _)
\* Length of the longest run of characters of the class that ends at s[i].
RachaAtras(s, i, clase) ==
    IF i >= 1 /\ i <= Len(s) /\ EnClase(Car(s, i), clase)
    THEN 1 + RachaAtras(s, i - 1, clase)
    ELSE 0

\* s.strip() for clase \s, s.strip(' ,;') for clase [ ,;]
Strip(s, clase) ==
    LET a == Racha(s, 1, clase)
        b == RachaAtras(s, Len(s), clase)
    IN  IF a = Len(s) THEN "" ELSE SubSeq(s, a + 1, Len(s) - b)

\* str.upper() of one character ('ß' gives 'SS', 'µ' the Greek capital).
\* The capital of 'ÿ' is U+0178, which no string of a module can hold:
\* Mayuscula has no value for 'ÿ'.
Mayuscula(c) ==
    CASE c /= "ÿ" ->
   (CASE c = "a" -> "A" [] c = "b" -> "B" [] c = "c" -> "C" [] c = "d" -> "D"
      [] c = "e" -> "E" [] c = "f" -> "F" [] c = "g" -> "G" [] c = "h" -> "H"
      [] c = "i" -> "I" [] c = "j" -> "J" [] c = "k" -> "K" [] c = "l" -> "L"
      [] c = "m" -> "M" [] c = "n" -> "N" [] c = "o" -> "O" [] c = "p" -> "P"
      [] c = "q" -> "Q" [] c = "r" -> "R" [] c = "s" -> "S" [] c = "t" -> "T"
      [] c = "u" -> "U" [] c = "v" -> "V" [] c = "w" -> "W" [] c = "x" -> "X"
      [] c = "y" -> "Y" [] c = "z" -> "Z" [] c = "µ" -> "Μ" [] c = "ß" -> "SS"
      [] c = "à" -> "À" [] c = "á" -> "Á" [] c = "â" -> "Â" [] c = "ã" -> "Ã"
      [] c = "ä" -> "Ä" [] c = "å" -> "Å" [] c = "æ" -> "Æ" [] c = "ç" -> "Ç"
      [] c = "è" -> "È" [] c = "é" -> "É" [] c = "ê" -> "Ê" [] c = "ë" -> "Ë"
      [] c = "ì" -> "Ì" [] c = "í" -> "Í" [] c = "î" -> "Î" [] c = "ï" -> "Ï"
      [] c = "ð" -> "Ð" [] c = "ñ" -> "Ñ" [] c = "ò" -> "Ò" [] c = "ó" -> "Ó"
      [] c = "ô" -> "Ô" [] c = "õ" -> "Õ" [] c = "ö" -> "Ö" [] c = "ø" -> "Ø"
      [] c = "ù" -> "Ù" [] c = "ú" -> "Ú" [] c = "û" -> "Û" [] c = "ü" -> "Ü"
      [] c = "ý" -> "Ý" [] c = "þ" -> "Þ"
      [] OTHER -> c)

\* str.lower() of one character.
Minuscula(c) ==
    CASE c = "A" -> "a" [] c = "B" -> "b" [] c = "C" -> "c" [] c = "D" -> "d"
      [] c = "E" -> "e" [] c = "F" -> "f" [] c = "G" -> "g" [] c = "H" -> "h"
      [] c = "I" -> "i" [] c = "J" -> "j" [] c = "K" -> "k" [] c = "L" -> "l"
      [] c = "M" -> "m" [] c = "N" -> "n" [] c = "O" -> "o" [] c = "P" -> "p"
      [] c = "Q" -> "q" [] c = "R" -> "r" [] c = "S" -> "s" [] c = "T" -> "t"
      [] c = "U" -> "u" [] c = "V" -> "v" [] c = "W" -> "w" [] c = "X" -> "x"
      [] c = "Y" -> "y" [] c = "Z" -> "z" [] c = "À" -> "à" [] c = "Á" -> "á"
      [] c = "Â" -> "â" [] c = "Ã" -> "ã" [] c = "Ä" -> "ä" [] c = "Å" -> "å"
      [] c = "Æ" -> "æ" [] c = "Ç" -> "ç" [] c = "È" -> "è" [] c = "É" -> "é"
      [] c = "Ê" -> "ê" [] c = "Ë" -> "ë" [] c = "Ì" -> "ì" [] c = "Í" -> "í"
      [] c = "Î" -> "î" [] c = "Ï" -> "ï" [] c = "Ð" -> "ð" [] c = "Ñ" -> "ñ"
      [] c = "Ò" -> "ò" [] c = "Ó" -> "ó" [] c = "Ô" -> "ô" [] c = "Õ" -> "õ"
      [] c = "Ö" -> "ö" [] c = "Ø" -> "ø" [] c = "Ù" -> "ù" [] c = "Ú" -> "ú"
      [] c = "Û" -> "û" [] c = "Ü" -> "ü" [] c = "Ý" -> "ý" [] c = "Þ" -> "þ"
      [] OTHER -> c

RECURSIVE Upper(_)
Upper(s) == IF s = "" THEN "" ELSE Mayuscula(Car(s, 1)) \o Upper(Desde(s, 2))

RECURSIVE Lower(_)
Lower(s) == IF s = "" THEN "" ELSE Minuscula(Car(s, 1)) \o Lower(Desde(s, 2))

RECURSIVE Replace(_, _, _)
\* s.replace(viejo, nuevo), viejo one character long.
Replace(s, viejo, nuevo) ==
    IF s = "" THEN ""
    ELSE (IF Car(s, 1) = viejo THEN nuevo ELSE Car(s, 1))
            \o Replace(Desde(s, 2), viejo, nuevo)

(***************************************************************************)
(* config.py : RegexPatterns; data_parser.py and app.py :                  *)
(* parsear_texto_acta                                                      *)
(***************************************************************************)

\* Where group 1 of  etiqueta\s*(clase{min,})  starts when the label is
\* matched at s[p], 0 when the pattern does not match there.  \s* takes the
\* whole run of white space and gives back as little of it as the group
\* needs.
InicioCaptura(s, p, etiqueta, clase, min) ==
    LET q  == p + Len(etiqueta)
        w  == Racha(s, q, "\\s")
        bs == { b \in 0..w : Racha(s, q + w - b, clase) >= min }
    IN  IF ~EmpiezaEn(s, p, etiqueta) \/ bs = {} THEN 0
        ELSE q + w - Minimo(bs)

\* m = re.search(etiqueta\s*(clase{min,max}), s): m.group(1), None when
\* there is no match.  The leftmost match is taken, the group is greedy.
Captura(s, etiqueta, clase, min, max) ==
    LET ps == { p \in 1..Len(s) : InicioCaptura(s, p, etiqueta, clase, min) /= 0 }
    IN  IF ps = {} THEN None
        ELSE LET q == InicioCaptura(s, Minimo(ps), etiqueta, clase, min)
                 n == Racha(s, q, clase)
             IN  SubSeq(s, q, q + (IF n > max THEN max ELSE n) - 1)

\* s[q:] starts with \d{2}/\d{2}/\d{4}
EsFecha(s, q) ==
    /\ q >= 1 /\ q + 9 <= Len(s)
    /\ \A i \in {0, 1, 3, 4, 6, 7, 8, 9} : EnClase(Car(s, q + i), "\\d")
    /\ Car(s, q + 2) = "/" /\ Car(s, q + 5) = "/"

\* re.search(etiqueta\s*(\d{2}/\d{2}/\d{4}), s): group 1 or None.
CapturaFecha(s, etiqueta) ==
    LET inicio(p) == p + Len(etiqueta) + Racha(s, p + Len(etiqueta), "\\s")
        ps == { p \in 1..Len(s) : EmpiezaEn(s, p, etiqueta) /\ EsFecha(s, inicio(p)) }
    IN  IF ps = {} THEN None
        ELSE SubSeq(s, inicio(Minimo(ps)), inicio(Minimo(ps)) + 9)

\* The ends e of a group ([^\n]+) that starts at s[q] and is followed by
\* \s* and the literal lit.
FinesAntesDe(s, q, lit) ==
    { e \in q..(q + Racha(s, q, "[^\\n]") - 1) :
        EmpiezaEn(s, e + 1 + Racha(s, e + 1, "\\s"), lit) }

\* re.search(RegexPatterns.REGISTRADO, s, re.DOTALL): the three groups, or
\* None.  Every group is greedy and gives back what the rest needs.
CapturaRegistrado(s) ==
    LET l1 == "Nombre(s):"
        l2 == "Primer Apellido:"
        l3 == "Segundo Apellido:"
        \* starts of group 1 for the label at p, the preferred one first
        q1s(p) == { q \in (p + Len(l1))..(p + Len(l1) + Racha(s, p + Len(l1), "\\s")) :
                      FinesAntesDe(s, q, l2) /= {} }
        \* start of the text behind lit, which follows the group ending at e
        tras(e, lit) == e + 1 + Racha(s, e + 1, "\\s") + Len(lit)
        \* starts of a group behind a label whose text ends before s[a]
        inicios(a) == a..(a + Racha(s, a, "\\s"))
        q3s(a) == { q \in inicios(a) : Racha(s, q, "[^\\n]") >= 1 }
        e2s(q) == { e \in FinesAntesDe(s, q, l3) : q3s(tras(e, l3)) /= {} }
        q2s(a) == { q \in inicios(a) : e2s(q) /= {} }
        e1s(q) == { e \in FinesAntesDe(s, q, l2) : q2s(tras(e, l2)) /= {} }
        ps == { p \in 1..Len(s) :
                  /\ EmpiezaEn(s, p, l1)
                  /\ \E q \in q1s(p) : e1s(q) /= {} }
    IN  IF ps = {} THEN None
        ELSE LET p  == Minimo(ps)
                 q1 == Maximo({ q \in q1s(p) : e1s(q) /= {} })
                 e1 == Maximo(e1s(q1))
                 q2 == Maximo(q2s(tras(e1, l2)))
                 e2 == Maximo(e2s(q2))
                 q3 == Maximo(q3s(tras(e2, l3)))
             IN  << SubSeq(s, q1, e1), SubSeq(s, q2, e2),
                    SubSeq(s, q3, q3 + Racha(s, q3, "[^\\n]") - 1) >>

RECURSIVE split(_, _)
\* s.split(sep), sep one character long: the parts of s between the
\* separators, in order ([''] for the empty string).
split(s, sep) ==
    LET cortes == { i \in 1..Len(s) : Car(s, i) = sep } IN
    IF cortes = {} THEN << s >>
    ELSE LET i == Minimo(cortes)
         IN  << SubSeq(s, 1, i - 1) >> \o split(Desde(s, i + 1), sep)

\* convertir_fecha / DataParser._convertir_fecha: d, m, a =
\* fecha_str.split('/') raises unless there are exactly three parts, and
\* the except clause returns the string as it came.
convertir_fecha(fecha_str) ==
    IF Incluye(fecha_str, "/")
    THEN LET partes == split(fecha_str, "/") IN
         IF Len(partes) = 3
         THEN partes[3] \o "-" \o partes[2] \o "-" \o partes[1]
         ELSE fecha_str
    ELSE fecha_str

\* 'H' if 'HOMB' in sexo else 'M' if 'MUJ' in sexo else sexo
CodigoSexo(grupo) ==
    LET sexo == Upper(Strip(grupo, "\\s"))
    IN  IF Incluye(sexo, "HOMB") THEN "H"
        ELSE IF Incluye(sexo, "MUJ") THEN "M" ELSE sexo

\* The value each pattern gives for the text, None where it does not match.
Extraidos(texto) ==
    LET largo == Len(texto)
        fr == CapturaFecha(texto, "Fecha de Registro")
        fn == CapturaFecha(texto, "Fecha de Nacimiento:")
        en == Captura(texto, "Entidad de Registro", "[A-ZÁÉÍÓÚÜÑ\\s]", 1, largo)
        mu == Captura(texto, "Municipio de Registro", "[A-ZÁÉÍÓÚÜÑ\\s]", 1, largo)
        rg == CapturaRegistrado(texto)
        sx == Captura(texto, "Sexo:", "[^\\n]", 1, largo)
    IN  [ CURP      |-> Captura(texto, "Clave Única de Registro de Población",
                                "[A-Z0-9]", 18, 18),
          Folio     |-> Captura(texto, "Identificador Electrónico", "\\d", 1, largo),
          Entidad   |-> IF en = None THEN None ELSE Strip(en, "\\s"),
          Municipio |-> IF mu = None THEN None ELSE Strip(mu, "\\s"),
          Oficial   |-> Captura(texto, "Oficialía", "\\d", 1, largo),
          FechaRegistro |-> IF fr = None THEN None ELSE convertir_fecha(fr),
          Libro     |-> Captura(texto, "Libro", "\\d", 1, largo),
          Acta      |-> Captura(texto, "Número de Acta", "\\d", 1, largo),
          Registrado |-> IF rg = None THEN None
                         ELSE Strip(rg[1], "\\s") \o " " \o Strip(rg[2], "\\s")
                                 \o " " \o Strip(rg[3], "\\s"),
          Sexo      |-> IF sx = None THEN None ELSE CodigoSexo(sx),
          FechaNacimiento |-> IF fn = None THEN None ELSE convertir_fecha(fn) ]

\* The dict both parsers build from the values ex of the patterns: the
\* fields found, the four defaults, and the time of the scan.
RegistroDeExtraidos(ex, ahora) ==
    LET hallados == { k \in DOMAIN ex : ex[k] /= None }
    IN  [ k \in hallados \cup {"Padre", "Madre", "Tomo", "Foja", "FechaEscaneo"} |->
            IF k \in hallados THEN ex[k]
            ELSE IF k = "FechaEscaneo" THEN ahora ELSE "" ]

\* The dict both parsers build for the text.
RegistroDeTexto(texto, ahora) ==
    CHOOSE registro \in { RegistroDeExtraidos(ex, ahora) : ex \in {Extraidos(texto)} } :
        TRUE

\* data_parser.py, line 143: not registro.get('CURP') and not
\* registro.get('Folio')
SinDatosMinimos(registro) ==
    ~Truthy(Get(registro, "CURP")) /\ ~Truthy(Get(registro, "Folio"))

\* DataParser.parsear_texto_acta (data_parser.py): None when neither CURP
\* nor Folio was found.
DataParser_parsear_texto_acta(texto, ahora) ==
    LET registro == RegistroDeTexto(texto, ahora)
    IN  IF SinDatosMinimos(registro) THEN None ELSE registro

\* parsear_texto_acta (app.py): the dict, whatever was found.
parsear_texto_acta(texto, ahora) == RegistroDeTexto(texto, ahora)

(***************************************************************************)
(* config.py : KeyMapping; data_parser.py and app.py : parsear_qr          *)
(***************************************************************************)

\* KeyMapping.MAPEO_CLAVES / mapeo_claves of app.normalizar_clave
MAPEO_CLAVES ==
    [ padre1 |-> "Padre", padre2 |-> "Madre", registrado |-> "Registrado",
      curp |-> "CURP", tomo |-> "Tomo", libro |-> "Libro", foja |-> "Foja",
      acta |-> "Acta", entidad |-> "Entidad", municipio |-> "Municipio",
      fechanacimiento |-> "FechaNacimiento", sexo |-> "Sexo",
      fechaimpresion |-> "FechaRegistro" ]
        @@ ("impreso en" :> "Oficial") @@ ("cadena" :> "Folio")

\* raw_key.lower().replace(' ', '').replace('í', 'i')
ClaveDeBusqueda(raw_key) == Replace(Replace(Lower(raw_key), " ", ""), "í", "i")

\* KeyMapping.normalizar_clave / app.normalizar_clave
normalizar_clave(raw_key) ==
    GetDef(MAPEO_CLAVES, ClaveDeBusqueda(raw_key), raw_key)

RECURSIVE Reparar(_, _, _)
\* re.sub(r'([^,])' + etiqueta, r'\1,' + etiqueta, data, flags=re.IGNORECASE)
\* from data[i] on: a comma is put before every occurrence of the label, in
\* any letter case, that follows a character other than a comma; the
\* occurrence is rewritten as the label is spelled in the pattern.
Reparar(data, i, etiqueta) ==
    IF i > Len(data) THEN ""
    ELSE IF /\ EnClase(Car(data, i), "[^,]")
            /\ i + Len(etiqueta) <= Len(data)
            /\ Lower(SubSeq(data, i + 1, i + Len(etiqueta))) = Lower(etiqueta)
         THEN Car(data, i) \o "," \o etiqueta
                 \o Reparar(data, i + 1 + Len(etiqueta), etiqueta)
         ELSE Car(data, i) \o Reparar(data, i + 1, etiqueta)

\* \b at data[i]: exactly one of data[i-1], data[i] is a \w character.
LimiteDePalabra(data, i) ==
    (i > 1 /\ i - 1 <= Len(data) /\ EnClase(Car(data, i - 1), "\\w"))
        /= (i <= Len(data) /\ EnClase(Car(data, i), "\\w"))

\* (?=\s*[\w\s]+:|$) at data[q]: a run of [\w\s] with a colon right behind
\* it, or the end of the string (or of its last line).
SigueClaveOFin(data, q) ==
    \/ /\ Racha(data, q, "[\\w\\s]") >= 1
       /\ Car(data, q + Racha(data, q, "[\\w\\s]")) = ":"
    \/ q = Len(data) + 1
    \/ q = Len(data) /\ Car(data, q) = "\n"

\* The match of patron that starts at data[i]: << clave, valor, end >> with
\* end the position behind the match, << >> when there is none.  The key
\* is the run of [\w\s] up to the colon; the value is the shortest text
\* without line break behind which a key or the end follows.
CoincidenciaEn(data, i) ==
    LET r  == Racha(data, i, "[\\w\\s]")
        j  == i + r
        ns == { n \in 1..Racha(data, j + 1, "[^\\n]") :
                  SigueClaveOFin(data, j + 1 + n) }
    IN  IF /\ LimiteDePalabra(data, i)
           /\ r >= 1
           /\ Car(data, j) = ":"
           /\ ns /= {}
        THEN << SubSeq(data, i, j - 1),
                SubSeq(data, j + 1, j + Minimo(ns)),
                j + 1 + Minimo(ns) >>
        ELSE << >>

RECURSIVE findall(_, _)
\* patron.findall(data), searching from data[pos]: the pairs (k, v) of the
\* matches, leftmost first, none overlapping.
findall(data, pos) ==
    LET is == { i \in pos..Len(data) : CoincidenciaEn(data, i) /= << >> }
    IN  IF is = {} THEN << >>
        ELSE LET m == CoincidenciaEn(data, Minimo(is))
             IN  << << m[1], m[2] >> >> \o findall(data, m[3])

\* The dict the loop over the matches builds, with the time of the scan:
\* a later pair replaces an earlier one of the same normalised key.
RegistroDePares(matches, ahora) ==
    LET clave(n) == normalizar_clave(Strip(matches[n][1], "\\s"))
        claves == { clave(n) : n \in 1..Len(matches) }
        ultimo(k) == Maximo({ n \in 1..Len(matches) : clave(n) = k })
    IN  [ k \in claves \cup {"FechaEscaneo"} |->
            IF k = "FechaEscaneo" THEN ahora
            ELSE Strip(matches[ultimo(k)][2], "[ ,;]") ]

\* parsear_qr (app.py) / DataParser.parsear_qr
parsear_qr(data, ahora) ==
    CHOOSE registro \in
        { RegistroDePares(matches, ahora) :
            matches \in { findall(reparado, 1) :
                reparado \in { Reparar(Reparar(data, 1, "CURP"), 1, "Padre") } } } :
        TRUE

(***************************************************************************)
(* State                                                                   *)
(***************************************************************************)

VARIABLES
    programa,    \* which program runs: "registro" (RegistroManager) or "app"
    entradas,    \* the dicts the clients submit in this run
    inicial,     \* the store's contents at the start of the run
    registros,   \* RegistroManager._registros
    lock,        \* owner of RegistroManager._lock
    REGISTROS,   \* app.REGISTROS
    LOCK,        \* owner of app._LOCK
    pc,          \* per thread: "idle", "lock", "append", "done"
    op,          \* per thread: the operation being executed
    arg,         \* per thread: the dict whose record the insert call is given
    ret,         \* per thread: the value the finished call returns
    refs,        \* per thread: which object each dict of the returned list is
    etapa,       \* position of the request being served in its handler
    solicitud,   \* the request being served
    disco,       \* the temporary files that exist
    temp_path,   \* local of the running PDF stage: name of its temporary file
    page_num,    \* local of the running PDF stage: next page index
    qr_codes,    \* local of the QR stage: the strings recovered
    texto,       \* local of the text stage: the text extracted
    llamadas,    \* the functions the request has called, in order (SpecAmbos: per
                 \* store, the calls given to it that the other has not been given)
    resultado,   \* the value of procesar_pdf_con_fallback
    respuesta    \* the response to the request (the handler's locals until it is built)

NoOp  == "-"
NoArg == << >>
NoRet == << >>

vars == << programa, entradas, inicial, registros, lock, REGISTROS, LOCK, pc, op, arg, ret,
          refs, etapa, solicitud, disco, temp_path, page_num, qr_codes, texto,
          llamadas, resultado, respuesta >>

\* The state of the request handlers and of the PDF stages.
varsPDF == << etapa, solicitud, disco, temp_path, page_num, qr_codes, texto,
              llamadas, resultado, respuesta >>

\* The state of the record stores and of their callers.
varsAlmacen == << inicial, registros, lock, REGISTROS, LOCK, pc, op, arg, ret, refs >>

\* No request is being served, no stage has run.
PDFInactivo ==
    /\ etapa = "libre"
    /\ solicitud = NoArg
    /\ disco = {}
    /\ temp_path = None
    /\ page_num = 0
    /\ qr_codes = << >>
    /\ texto = ""
    /\ llamadas = << >>
    /\ resultado = NoRet
    /\ respuesta = NoRet

Init ==
    /\ programa \in {"registro", "app"}
    /\ entradas \in Universos
    /\ inicial = << >>
    /\ registros = << >>
    /\ lock = NoOwner
    /\ REGISTROS = << >>
    /\ LOCK = NoOwner
    /\ pc = [t \in Threads |-> "idle"]
    /\ op = [t \in Threads |-> NoOp]
    /\ arg = [t \in Threads |-> NoArg]
    /\ ret = [t \in Threads |-> NoRet]
    /\ refs = [t \in Threads |-> << >>]
    /\ PDFInactivo

\* Mutant: the lock excludes nobody.
PuedeAdquirir_SinExclusion(owner, t) == TRUE

\* RLock.acquire: free, or already owned by the caller (re-entrant).
PuedeAdquirir(owner, t) == owner = NoOwner \/ owner = t

\* with lock: ... leaves the block
Liberar == NoOwner

(***************************************************************************)
(* Object identity of the dicts a listing returns.  A dict of a returned   *)
(* list is named by a number: i in 1..n when it is the very object at      *)
(* position i of the stored list of n rows, a number above n when it is an *)
(* object that was stored and has been cleared from the list since, and    *)
(* Propio when it was built for this caller alone.                         *)
(***************************************************************************)

Propio == 0

\* The threads in a fixed order.
EnOrden == CHOOSE s \in [1..Cardinality(Threads) -> Threads] :
              \A i, j \in 1..Cardinality(Threads) : i /= j => s[i] /= s[j]

RECURSIVE Aplanar(_, _)
\* The names threads EnOrden[i..] hold, in one sequence.
Aplanar(refs_, i) ==
    IF i > Cardinality(Threads) THEN << >>
    ELSE refs_[EnOrden[i]] \o Aplanar(refs_, i + 1)

\* The names above n are renumbered n+1, n+2, ... in the order in which the
\* objects first occur: which number names a cleared object carries no
\* information.
Renombrar(refs_, n) ==
    LET plano == Aplanar(refs_, 1)
        primera(x) == CHOOSE i \in 1..Len(plano) :
                         plano[i] = x /\ \A j \in 1..(i - 1) : plano[j] /= x
        primeras == { i \in 1..Len(plano) : plano[i] > n /\ primera(plano[i]) = i }
        nombre(x) == n + Cardinality({ i \in primeras : i <= primera(x) })
    IN  [ t \in Threads |->
            [ k \in 1..Len(refs_[t]) |->
                IF refs_[t][k] > n THEN nombre(refs_[t][k]) ELSE refs_[t][k] ] ]

\* list.append of a new dict: it is object n+1 of the list; the names of the
\* cleared objects move up by one.
RefsTrasAppend(refs_, n) ==
    [ t \in Threads |->
        [ k \in 1..Len(refs_[t]) |->
            IF refs_[t][k] > n THEN refs_[t][k] + 1 ELSE refs_[t][k] ] ]

\* list.clear: the list holds no object; the dicts threads hold live on.
RefsTrasClear(refs_) == Renombrar(refs_, 0)

(***************************************************************************)
(* models/registro.py : RegistroManager                                    *)
(***************************************************************************)

\* Mutant: the loop compares the Folio only.
EsDuplicado_SoloFolio(r, registro) ==
    Truthy(registro.Folio) /\ r.Folio = registro.Folio

\* The test of the duplicate loop of agregar, for one stored record r.
EsDuplicado(r, registro) ==
    \/ (Truthy(registro.Folio) /\ r.Folio = registro.Folio)
    \/ (Truthy(registro.CURP) /\ r.CURP = registro.CURP)

MensajeSinClave == "Error: No se encontró Folio ni CURP en el registro"

MensajeLimite ==
    "Límite de memoria alcanzado (" \o ToString(MAX_REGISTROS_MEMORIA) \o " registros)"

MensajeDuplicado(registro) ==
    "Acta DUPLICADA. Ya existe " \o
       (IF Truthy(registro.Folio) THEN "Folio: " \o registro.Folio
                                  ELSE "CURP: " \o registro.CURP)

MensajeExito(registro) ==
    "Acta registrada (" \o (IF Truthy(registro.Folio) THEN "Folio" ELSE "CURP")
       \o ": " \o get_clave_unica(registro) \o ") exitosamente"

\* Mutant: the capacity test is off by one.
LimiteAlcanzado_Mayor(regs) == Len(regs) > MAX_REGISTROS_MEMORIA

\* The capacity test of agregar.
LimiteAlcanzado(regs) == Len(regs) >= MAX_REGISTROS_MEMORIA

\* Mutant: the key is compared with None, which a str field never is.
SinClave_EsNone(registro) == get_clave_unica(registro) = None

\* if not clave
SinClave(registro) == ~Truthy(get_clave_unica(registro))

\* agregar, lines 72-78: the record is built by the caller with
\* crear_desde_dict; a record without key is turned away before the lock.
agregar_inicio(t, datos) ==
    /\ programa = "registro"
    /\ pc[t] = "idle"
    /\ LET registro == crear_desde_dict(datos) IN
       /\ arg' = [arg EXCEPT ![t] = datos]
       /\ op' = [op EXCEPT ![t] = "agregar"]
       /\ IF SinClave(registro)
          THEN /\ ret' = [ret EXCEPT ![t] = <<FALSE, MensajeSinClave>>]
               /\ pc' = [pc EXCEPT ![t] = "done"]
          ELSE /\ ret' = ret
               /\ pc' = [pc EXCEPT ![t] = "lock"]
    /\ UNCHANGED << programa, entradas, inicial, registros, lock, REGISTROS, LOCK, refs >>
    /\ UNCHANGED varsPDF

\* Mutant: the tests and the append are two critical sections, the lock
\* being released between them.
agregar_verificar_DosSecciones(t) ==
    /\ programa = "registro"
    /\ pc[t] = "lock"
    /\ op[t] = "agregar"
    /\ PuedeAdquirir(lock, t)
    /\ LET registro == crear_desde_dict(arg[t]) IN
       IF LimiteAlcanzado(registros)
       THEN /\ ret' = [ret EXCEPT ![t] = <<FALSE, MensajeLimite>>]
            /\ pc' = [pc EXCEPT ![t] = "done"]
       ELSE IF \E i \in 1..Len(registros) : EsDuplicado(registros[i], registro)
       THEN /\ ret' = [ret EXCEPT ![t] = <<FALSE, MensajeDuplicado(registro)>>]
            /\ pc' = [pc EXCEPT ![t] = "done"]
       ELSE /\ ret' = ret
            /\ pc' = [pc EXCEPT ![t] = "append"]
    /\ lock' = Liberar
    /\ UNCHANGED << programa, entradas, inicial, registros, REGISTROS, LOCK, op, arg, refs >>
    /\ UNCHANGED varsPDF

\* agregar, lines 80-93: takes the lock, tests the capacity, scans for a
\* duplicate; a rejected call leaves the with block and returns.
agregar_verificar(t) ==
    /\ programa = "registro"
    /\ pc[t] = "lock"
    /\ op[t] = "agregar"
    /\ PuedeAdquirir(lock, t)
    /\ LET registro == crear_desde_dict(arg[t]) IN
       IF LimiteAlcanzado(registros)
       THEN /\ ret' = [ret EXCEPT ![t] = <<FALSE, MensajeLimite>>]
            /\ pc' = [pc EXCEPT ![t] = "done"]
            /\ lock' = Liberar
       ELSE IF \E i \in 1..Len(registros) : EsDuplicado(registros[i], registro)
       THEN /\ ret' = [ret EXCEPT ![t] = <<FALSE, MensajeDuplicado(registro)>>]
            /\ pc' = [pc EXCEPT ![t] = "done"]
            /\ lock' = Liberar
       ELSE /\ ret' = ret
            /\ pc' = [pc EXCEPT ![t] = "append"]
            /\ lock' = t
    /\ UNCHANGED << programa, entradas, inicial, registros, REGISTROS, LOCK, op, arg, refs >>
    /\ UNCHANGED varsPDF

\* Mutant: the record goes to the front of the list.
agregar_append_AlFrente(t) ==
    /\ programa = "registro"
    /\ pc[t] = "append"
    /\ op[t] = "agregar"
    /\ LET registro == crear_desde_dict(arg[t]) IN
       /\ registros' = << registro >> \o registros
       /\ ret' = [ret EXCEPT ![t] = <<TRUE, MensajeExito(registro)>>]
    /\ pc' = [pc EXCEPT ![t] = "done"]
    /\ lock' = Liberar
    /\ UNCHANGED << programa, entradas, inicial, REGISTROS, LOCK, op, arg, refs >>
    /\ UNCHANGED varsPDF

\* agregar, lines 95-99: appends, leaves the with block and returns.
agregar_append(t) ==
    /\ programa = "registro"
    /\ pc[t] = "append"
    /\ op[t] = "agregar"
    /\ LET registro == crear_desde_dict(arg[t]) IN
       /\ registros' = Append(registros, registro)
       /\ ret' = [ret EXCEPT ![t] = <<TRUE, MensajeExito(registro)>>]
    /\ pc' = [pc EXCEPT ![t] = "done"]
    /\ lock' = Liberar
    /\ UNCHANGED << programa, entradas, inicial, REGISTROS, LOCK, op, arg, refs >>
    /\ UNCHANGED varsPDF

\* The value obtener_todos returns for the stored list regs.
Listado(regs, ordenar_por_fecha) ==
    LET dicts == [ i \in 1..Len(regs) |-> to_dict(regs[i]) ]
    IN  IF ordenar_por_fecha THEN sorted(dicts, TRUE) ELSE dicts

\* obtener_todos() with its default argument: one critical section.
obtener_todos(t) ==
    /\ programa = "registro"
    /\ pc[t] = "idle"
    /\ PuedeAdquirir(lock, t)
    /\ op' = [op EXCEPT ![t] = "obtener_todos"]
    /\ ret' = [ret EXCEPT ![t] = Listado(registros, TRUE)]
    /\ refs' = [refs EXCEPT ![t] = [ i \in 1..Len(registros) |-> Propio ]]
    /\ pc' = [pc EXCEPT ![t] = "done"]
    /\ UNCHANGED << programa, entradas, inicial, registros, lock, REGISTROS, LOCK, arg >>
    /\ UNCHANGED varsPDF

\* contar(): one critical section.
contar(t) ==
    /\ programa = "registro"
    /\ pc[t] = "idle"
    /\ PuedeAdquirir(lock, t)
    /\ op' = [op EXCEPT ![t] = "contar"]
    /\ ret' = [ret EXCEPT ![t] = Len(registros)]
    /\ pc' = [pc EXCEPT ![t] = "done"]
    /\ UNCHANGED << programa, entradas, inicial, registros, lock, REGISTROS, LOCK, arg, refs >>
    /\ UNCHANGED varsPDF

MensajeLimpiar(cantidad) ==
    "Se limpiaron " \o ToString(cantidad) \o " registros de la memoria"

\* limpiar(): one critical section.
limpiar(t) ==
    /\ programa = "registro"
    /\ pc[t] = "idle"
    /\ PuedeAdquirir(lock, t)
    /\ op' = [op EXCEPT ![t] = "limpiar"]
    /\ ret' = [ret EXCEPT ![t] = <<TRUE, MensajeLimpiar(Len(registros))>>]
    /\ registros' = << >>
    /\ pc' = [pc EXCEPT ![t] = "done"]
    /\ UNCHANGED << programa, entradas, inicial, lock, REGISTROS, LOCK, arg, refs >>
    /\ UNCHANGED varsPDF

(***************************************************************************)
(* app.py : REGISTROS, guardar_registro, obtener_registros                 *)
(***************************************************************************)

\* Mutant: a row is a duplicate only when Folio and CURP both match.
EsDuplicadoApp_AmbosCampos(r, registro) ==
    /\ (Truthy(Get(registro, "Folio")) /\ Get(r, "Folio") = Get(registro, "Folio"))
    /\ (Truthy(Get(registro, "CURP")) /\ Get(r, "CURP") = Get(registro, "CURP"))

\* The test of the duplicate loop of guardar_registro, for one stored row r.
EsDuplicadoApp(r, registro) ==
    \/ (Truthy(Get(registro, "Folio")) /\ Get(r, "Folio") = Get(registro, "Folio"))
    \/ (Truthy(Get(registro, "CURP")) /\ Get(r, "CURP") = Get(registro, "CURP"))

MensajeSinClaveApp == "Error: No se encontró Folio ni CURP en el código QR."

MensajeDuplicadoApp(registro) ==
    "Acta DUPLICADA. Ya existe " \o
       (IF Truthy(Get(registro, "Folio")) THEN "Folio: " \o Get(registro, "Folio")
                                          ELSE "CURP: " \o Get(registro, "CURP"))
       \o "."

MensajeExitoApp(registro) ==
    "Acta registrada (" \o (IF Truthy(Get(registro, "Folio")) THEN "Folio" ELSE "CURP")
       \o ": " \o clave_registro(registro) \o ") exitosamente"

\* if not clave
SinClaveApp(registro) == ~Truthy(clave_registro(registro))

\* guardar_registro, lines 115-118.
guardar_registro_inicio(t, registro) ==
    /\ programa = "app"
    /\ pc[t] = "idle"
    /\ arg' = [arg EXCEPT ![t] = registro]
    /\ op' = [op EXCEPT ![t] = "guardar_registro"]
    /\ IF SinClaveApp(registro)
       THEN /\ ret' = [ret EXCEPT ![t] = <<FALSE, MensajeSinClaveApp>>]
            /\ pc' = [pc EXCEPT ![t] = "done"]
       ELSE /\ ret' = ret
            /\ pc' = [pc EXCEPT ![t] = "lock"]
    /\ UNCHANGED << programa, entradas, inicial, registros, lock, REGISTROS, LOCK, refs >>
    /\ UNCHANGED varsPDF

\* guardar_registro, lines 120-124: takes the lock and scans for a duplicate.
guardar_registro_verificar(t) ==
    /\ programa = "app"
    /\ pc[t] = "lock"
    /\ op[t] = "guardar_registro"
    /\ PuedeAdquirir(LOCK, t)
    /\ IF \E i \in 1..Len(REGISTROS) : EsDuplicadoApp(REGISTROS[i], arg[t])
       THEN /\ ret' = [ret EXCEPT ![t] = <<FALSE, MensajeDuplicadoApp(arg[t])>>]
            /\ pc' = [pc EXCEPT ![t] = "done"]
            /\ LOCK' = Liberar
       ELSE /\ ret' = ret
            /\ pc' = [pc EXCEPT ![t] = "append"]
            /\ LOCK' = t
    /\ UNCHANGED << programa, entradas, inicial, registros, lock, REGISTROS, op, arg, refs >>
    /\ UNCHANGED varsPDF

\* guardar_registro, lines 126-130: normalises the columns, appends, leaves
\* the with block and returns.
guardar_registro_append(t) ==
    /\ programa = "app"
    /\ pc[t] = "append"
    /\ op[t] = "guardar_registro"
    /\ LET fila == Normalizar(arg[t]) IN REGISTROS' = Append(REGISTROS, fila)
    /\ refs' = RefsTrasAppend(refs, Len(REGISTROS))
    /\ ret' = [ret EXCEPT ![t] = <<TRUE, MensajeExitoApp(arg[t])>>]
    /\ pc' = [pc EXCEPT ![t] = "done"]
    /\ LOCK' = Liberar
    /\ UNCHANGED << programa, entradas, inicial, registros, lock, op, arg >>
    /\ UNCHANGED varsPDF

\* The value obtener_registros returns for the stored list regs.
ListadoApp(regs) == sorted(regs, TRUE)

\* Which objects the dicts of that value are: sorted() builds a new list of
\* the same dict objects, so the k-th is the stored dict it was sorted from.
ReferenciasApp(regs) ==
    LET marcados == [ i \in 1..Len(regs) |->
                        [FechaEscaneo |-> FechaKey(regs[i]), pos |-> i] ]
        orden == sorted(marcados, TRUE)
    IN  [ k \in 1..Len(regs) |-> orden[k].pos ]

\* obtener_registros(): one critical section.
obtener_registros(t) ==
    /\ programa = "app"
    /\ pc[t] = "idle"
    /\ PuedeAdquirir(LOCK, t)
    /\ op' = [op EXCEPT ![t] = "obtener_registros"]
    /\ ret' = [ret EXCEPT ![t] = ListadoApp(REGISTROS)]
    /\ refs' = [refs EXCEPT ![t] = ReferenciasApp(REGISTROS)]
    /\ pc' = [pc EXCEPT ![t] = "done"]
    /\ UNCHANGED << programa, entradas, inicial, registros, lock, REGISTROS, LOCK, arg >>
    /\ UNCHANGED varsPDF

\* The JSON body of the limpiar_registros route (tabla_html left out).
RespuestaLimpiar == [success |-> TRUE, message |-> "Registros limpiados"]

\* limpiar_registros(): clears under the lock, then answers.
limpiar_registros(t) ==
    /\ programa = "app"
    /\ pc[t] = "idle"
    /\ PuedeAdquirir(LOCK, t)
    /\ op' = [op EXCEPT ![t] = "limpiar_registros"]
    /\ REGISTROS' = << >>
    /\ refs' = RefsTrasClear(refs)
    /\ ret' = [ret EXCEPT ![t] = RespuestaLimpiar]
    /\ pc' = [pc EXCEPT ![t] = "done"]
    /\ UNCHANGED << programa, entradas, inicial, registros, lock, LOCK, arg >>
    /\ UNCHANGED varsPDF

(***************************************************************************)
(* Specification                                                           *)
(***************************************************************************)

\* The caller takes the returned value; the thread is free for the next call.
retornar(t) ==
    /\ pc[t] = "done"
    /\ pc' = [pc EXCEPT ![t] = "idle"]
    /\ op' = [op EXCEPT ![t] = NoOp]
    /\ arg' = [arg EXCEPT ![t] = NoArg]
    /\ ret' = [ret EXCEPT ![t] = NoRet]
    /\ refs' = Renombrar([refs EXCEPT ![t] = << >>], Len(REGISTROS))
    /\ UNCHANGED << programa, entradas, inicial, registros, lock, REGISTROS, LOCK >>
    /\ UNCHANGED varsPDF

Next ==
    \E t \in Threads :
        \/ \E datos \in entradas : agregar_inicio(t, datos)
        \/ agregar_verificar(t)
        \/ agregar_append(t)
        \/ obtener_todos(t)
        \/ contar(t)
        \/ limpiar(t)
        \/ \E registro \in entradas : guardar_registro_inicio(t, registro)
        \/ guardar_registro_verificar(t)
        \/ guardar_registro_append(t)
        \/ obtener_registros(t)
        \/ limpiar_registros(t)
        \/ retornar(t)

Spec == Init /\ [][Next]_vars

(***************************************************************************)
(* Two inserts racing on a store built by earlier calls                    *)
(***************************************************************************)

\* The store after one agregar call that runs alone.
agregar_secuencial(regs, datos) ==
    LET registro == crear_desde_dict(datos) IN
    IF SinClave(registro) THEN regs
    ELSE IF LimiteAlcanzado(regs) THEN regs
    ELSE IF \E i \in 1..Len(regs) : EsDuplicado(regs[i], registro) THEN regs
    ELSE Append(regs, registro)

\* The store after one guardar_registro call that runs alone.
guardar_secuencial(regs, registro) ==
    IF SinClaveApp(registro) THEN regs
    ELSE IF \E i \in 1..Len(regs) : EsDuplicadoApp(regs[i], registro) THEN regs
    ELSE Append(regs, Normalizar(registro))

RECURSIVE AlmacenesTras(_, _, _)
\* The stores that n insert calls, one after the other, can build.
AlmacenesTras(prog, dicts, n) ==
    IF n = 0 THEN { << >> }
    ELSE LET S == AlmacenesTras(prog, dicts, n - 1) IN
         S \cup { IF prog = "registro" THEN agregar_secuencial(s, d)
                                       ELSE guardar_secuencial(s, d) :
                  s \in S, d \in dicts }

\* Both threads have called insert with records of one non-empty Folio, on a
\* store below capacity that does not hold that Folio.
InitCarrera ==
    /\ programa \in {"registro", "app"}
    /\ entradas \in Universos
    /\ \E s \in AlmacenesTras(programa, entradas, MaxPrevios) :
       \E d1, d2 \in entradas :
         /\ Truthy(Get(d1, "Folio")) /\ Get(d1, "Folio") = Get(d2, "Folio")
         /\ \A i \in 1..Len(s) : s[i].Folio /= Get(d1, "Folio")
         /\ Len(s) < MAX_REGISTROS_MEMORIA
         /\ inicial = s
         /\ registros = (IF programa = "registro" THEN s ELSE << >>)
         /\ REGISTROS = (IF programa = "app" THEN s ELSE << >>)
         /\ arg = [t \in Threads |-> IF t = "t1" THEN d1 ELSE d2]
    /\ lock = NoOwner
    /\ LOCK = NoOwner
    /\ pc = [t \in Threads |-> "lock"]
    /\ op = [t \in Threads |->
               IF programa = "registro" THEN "agregar" ELSE "guardar_registro"]
    /\ ret = [t \in Threads |-> NoRet]
    /\ refs = [t \in Threads |-> << >>]
    /\ PDFInactivo

NextCarrera ==
    \E t \in Threads :
        \/ agregar_verificar(t)
        \/ agregar_append(t)
        \/ guardar_registro_verificar(t)
        \/ guardar_registro_append(t)

SpecCarrera == InitCarrera /\ [][NextCarrera]_vars

(***************************************************************************)
(* A caller that changes the list a listing returned to it                 *)
(***************************************************************************)

EsListado(t) == pc[t] = "done" /\ op[t] \in {"obtener_todos", "obtener_registros"}

\* The reversed sequence.
Invertida(seq) == [ i \in 1..Len(seq) |-> seq[Len(seq) + 1 - i] ]

\* L[k][campo] = valor, on the list L thread t was returned.  The dict is an
\* object: every list that holds this very object shows the new value, the
\* stored list of app.py among them.
cambiar_campo(t, k, campo, valor) ==
    /\ EsListado(t)
    /\ k \in 1..Len(ret[t])
    /\ LET x == refs[t][k]
           esElObjeto(u, m) == (u = t /\ m = k) \/ (x /= Propio /\ refs[u][m] = x)
       IN  /\ ret' = [ u \in Threads |->
                        IF refs[u] = << >> THEN ret[u]
                        ELSE [ m \in 1..Len(ret[u]) |->
                                 IF esElObjeto(u, m)
                                 THEN [ret[u][m] EXCEPT ![campo] = valor]
                                 ELSE ret[u][m] ] ]
           /\ REGISTROS' = [ j \in 1..Len(REGISTROS) |->
                               IF x = j THEN [REGISTROS[j] EXCEPT ![campo] = valor]
                                        ELSE REGISTROS[j] ]
    /\ UNCHANGED << programa, entradas, inicial, registros, lock, LOCK, pc, op, arg, refs >>
    /\ UNCHANGED varsPDF

\* L.reverse(), on the list L thread t was returned.
reordenar(t) ==
    /\ EsListado(t)
    /\ Len(ret[t]) >= 2
    /\ ret' = [ret EXCEPT ![t] = Invertida(ret[t])]
    /\ refs' = Renombrar([refs EXCEPT ![t] = Invertida(refs[t])], Len(REGISTROS))
    /\ UNCHANGED << programa, entradas, inicial, registros, lock, REGISTROS, LOCK, pc, op, arg >>
    /\ UNCHANGED varsPDF

\* L.pop(), on the list L thread t was returned.
truncar(t) ==
    /\ EsListado(t)
    /\ Len(ret[t]) >= 1
    /\ ret' = [ret EXCEPT ![t] = SubSeq(ret[t], 1, Len(ret[t]) - 1)]
    /\ refs' = Renombrar([refs EXCEPT ![t] = SubSeq(refs[t], 1, Len(refs[t]) - 1)],
                         Len(REGISTROS))
    /\ UNCHANGED << programa, entradas, inicial, registros, lock, REGISTROS, LOCK, pc, op, arg >>
    /\ UNCHANGED varsPDF

\* The field and the value the caller writes.
CampoCambiado == "Sexo"
ValorCambiado == "CAMBIADO"

\* Two records scanned at different times.
EntradasAlias ==
    { [Folio |-> "123", Sexo |-> "H", FechaEscaneo |-> T1],
      [CURP |-> CURP_A, Sexo |-> "M", FechaEscaneo |-> T2] }

InitAlias ==
    /\ programa \in {"registro", "app"}
    /\ entradas = EntradasAlias
    /\ inicial = << >>
    /\ registros = << >>
    /\ lock = NoOwner
    /\ REGISTROS = << >>
    /\ LOCK = NoOwner
    /\ pc = [t \in Threads |-> "idle"]
    /\ op = [t \in Threads |-> NoOp]
    /\ arg = [t \in Threads |-> NoArg]
    /\ ret = [t \in Threads |-> NoRet]
    /\ refs = [t \in Threads |-> << >>]
    /\ PDFInactivo

NextAlias ==
    \/ Next
    \/ \E t \in Threads :
          \/ \E k \in 1..Len(refs[t]) :
                cambiar_campo(t, k, CampoCambiado, ValorCambiado)
          \/ reordenar(t)
          \/ truncar(t)

SpecAlias == InitAlias /\ [][NextAlias]_vars

(***************************************************************************)
(* The PDF stages: app.py extraer_qr_desde_pdf,                            *)
(* extraer_datos_desde_texto_pdf, procesar_pdf_con_fallback, and           *)
(* services/pdf_processor.py PDFProcessor.  PDF rendering, QR decoding and *)
(* the file system are outside the program: a PDF is given by what they    *)
(* yield for each of its pages.                                            *)
(***************************************************************************)

\* MAX_PDF_PAGES (app.py:23) is 100 in the source; the model scales it down
\* so that a PDF longer than the cap is small.
MAX_PDF_PAGES == 2

\* Number of temporary files that are left behind before the file system
\* stops failing.
MaxTemporales == 1

\* MAX_FILE_SIZE (app.py:22)
MAX_FILE_SIZE == 50 * 1024 * 1024

QR_A == "Tomo:1,CURP:ABCD123456HTLXYZ01,cadena:123"
QR_B == "cadena:456Padre1:PEDRO"
QR_SinClave == "Tomo:1,Libro:2"

TextoActa ==
    "Clave Única de Registro de Población\nWXYZ654321MTLABC02\n"
       \o "Identificador Electrónico\n789\nMunicipio de Registro\nAPIZACO\n"
       \o "Sexo:\nMUJER\n"

TextoSinClave == "Municipio de Registro TLAXCALA\nSexo: HOMBRE\n"

\* The times datetime.now() gives while requests are served.
Relojes == {T1}

\* What the collaborators yield for one page: estado is "ok",
\* "error_carga" (load_page raises), "error_render" (get_pixmap raises) or
\* "sin_imagen" (cv2.imdecode gives None); qr is what detectAndDecode
\* gives for the rendered page; texto is what get_text gives.
Pagina(estado, qr, txt) == [estado |-> estado, qr |-> qr, texto |-> txt]

PaginaEnBlanco == Pagina("ok", "", "")

\* A PDF: whether fitz.open accepts it, and its pages.
Documento(abre, paginas) == [abre |-> abre, paginas |-> paginas]

\* A PDF longer than the page cap whose only QR is on its last page.
DocumentoLargo ==
    Documento(TRUE, [ i \in 1..(MAX_PDF_PAGES + 1) |->
                        IF i = MAX_PDF_PAGES + 1 THEN Pagina("ok", QR_B, "")
                        ELSE PaginaEnBlanco ])

Documentos ==
    { Documento(TRUE, << Pagina("ok", QR_A, "") >>),
      Documento(TRUE, << Pagina("ok", QR_A, ""), Pagina("ok", QR_B, "") >>),
      Documento(TRUE, << Pagina("ok", QR_SinClave, "") >>),
      Documento(TRUE, << Pagina("ok", "", TextoActa) >>),
      Documento(TRUE, << Pagina("ok", "  ", TextoSinClave) >>),
      Documento(TRUE, << Pagina("error_carga", "", ""), Pagina("ok", QR_A, "") >>),
      Documento(TRUE, << Pagina("ok", QR_B, ""), Pagina("error_render", "", TextoActa) >>),
      Documento(TRUE, << Pagina("sin_imagen", QR_A, "") >>),
      Documento(FALSE, << >>),
      DocumentoLargo }

\* An uploaded file: its name, its length in bytes, and the PDF it holds.
Archivo(filename, size, doc) == [filename |-> filename, size |-> size, doc |-> doc]

\* The uploaded files.
Archivos ==
    { Archivo("acta.pdf", 2048, d) : d \in Documentos }
        \cup { Archivo("ACTA.PDF", 100, Documento(TRUE, << Pagina("ok", QR_A, "") >>)),
               Archivo("", 2048, Documento(TRUE, << PaginaEnBlanco >>)),
               Archivo("acta.txt", 2048, Documento(TRUE, << PaginaEnBlanco >>)),
               Archivo("acta", 2048, Documento(TRUE, << PaginaEnBlanco >>)),
               Archivo("acta.pdf", MAX_FILE_SIZE + 1, Documento(TRUE, << PaginaEnBlanco >>)),
               Archivo("acta.pdf", 0, Documento(FALSE, << >>)),
               Archivo("acta.pdf", 99, Documento(FALSE, << >>)) }

\* request.files of the requests to /procesar_pdf: the file under
\* 'pdf_file', when there is one.
Subidas == { << a >> : a \in Archivos } \cup { << >> }

\* The requests to /procesar_qr: the value of 'qr_data'.
DatosQR == { QR_B, QR_SinClave, "", "  ", " " \o QR_A \o "\n" }

\* The function name is added to the calls of the request, which start
\* with the route or function that serves it.
Llamar(nombre) == llamadas' = Append(llamadas, nombre)

\* tempfile.NamedTemporaryFile: a name no existing file has.
NuevoTemporal(archivos) ==
    LET n == CHOOSE n \in 1..(Cardinality(archivos) + 1) :
                 /\ ("/tmp/tmp" \o ToString(n) \o ".pdf") \notin archivos
                 /\ \A m \in 1..(n - 1) : ("/tmp/tmp" \o ToString(m) \o ".pdf") \in archivos
    IN  "/tmp/tmp" \o ToString(n) \o ".pdf"

\* The outcomes of an operation of the file system: it can fail while
\* fewer than MaxTemporales files are left behind.
ResultadosES(sobrantes) == IF sobrantes < MaxTemporales THEN {"ok", "error"} ELSE {"ok"}

\* The PDF the running stage was given: the upload's in app.py, the
\* argument of PDFProcessor.procesar_pdf_con_fallback otherwise.
DocActual == IF programa = "app" THEN solicitud[1].doc ELSE solicitud

\* app.py: max_pages = min(total_pages, MAX_PDF_PAGES)
max_pages(total_pages) ==
    IF total_pages < MAX_PDF_PAGES THEN total_pages ELSE MAX_PDF_PAGES

\* Number of pages the loops of the stages go over: app.py caps it,
\* PDFProcessor takes range(len(pdf_document)).
PaginasARecorrer(total_pages) ==
    IF programa = "app" THEN max_pages(total_pages) ELSE total_pages

\* data.strip() if data and data.strip() else None
QRDePagina(pagina) ==
    IF Truthy(pagina.qr) /\ Truthy(Strip(pagina.qr, "\\s"))
    THEN Strip(pagina.qr, "\\s") ELSE None

\* The outcomes of the first lines of both stages: "error_crear" when
\* NamedTemporaryFile raises, "error_escritura" when write raises,
\* "error_cierre" when the close at the end of the with block raises.
ResultadosCrear(sobrantes) ==
    IF sobrantes < MaxTemporales
    THEN {"ok", "error_crear", "error_escritura", "error_cierre"}
    ELSE {"ok"}

\* First lines of both stages: the temporary file is created, the PDF bytes
\* are written to it, temp_path is set and the file is closed.  An
\* exception goes to the except clause: of the creation with no file on
\* disk, of the write with the file on disk and temp_path still None, of
\* the close with the file on disk and temp_path set.
CrearTemporal(siguiente, excepcion) ==
    /\ \E creacion \in ResultadosCrear(Cardinality(disco)) :
         LET nombre == NuevoTemporal(disco) IN
         /\ disco' = (IF creacion = "error_crear" THEN disco ELSE disco \cup {nombre})
         /\ temp_path' = (IF creacion \in {"ok", "error_cierre"} THEN nombre ELSE None)
         /\ etapa' = (IF creacion = "ok" THEN siguiente ELSE excepcion)
    /\ page_num' = 0

\* finally of both stages: the temporary file is removed when temp_path
\* names it; a failure of os.unlink is swallowed.
BorrarTemporal ==
    /\ IF temp_path /= None /\ temp_path \in disco
       THEN \E borrado \in ResultadosES(Cardinality(disco) - 1) :
               disco' = (IF borrado = "ok" THEN disco \ {temp_path} ELSE disco)
       ELSE disco' = disco
    /\ temp_path' = None
    /\ page_num' = 0

\* extraer_qr_desde_pdf, up to the open of the PDF.
extraer_qr_crear ==
    /\ etapa = "qr"
    /\ CrearTemporal("qr_abrir", "qr_except")
    /\ qr_codes' = << >>
    /\ Llamar("extraer_qr_desde_pdf")
    /\ UNCHANGED << programa, entradas, varsAlmacen, solicitud, texto, resultado,
                    respuesta >>

\* fitz.open(temp_path): an exception goes to the except clause.
extraer_qr_abrir ==
    /\ etapa = "qr_abrir"
    /\ etapa' = (IF DocActual.abre THEN "qr_pagina" ELSE "qr_except")
    /\ UNCHANGED << programa, entradas, varsAlmacen, solicitud, disco, temp_path,
                    page_num, qr_codes, texto, llamadas, resultado, respuesta >>

\* One turn of the page loop of the QR stage, or its end.  app.py goes on
\* to the next page after an exception and stops at the first QR;
\* PDFProcessor goes to its except clause at an exception and goes over
\* every page.
extraer_qr_pagina ==
    /\ etapa = "qr_pagina"
    /\ LET paginas == DocActual.paginas
           pagina  == paginas[page_num + 1]
           falla   == pagina.estado \in {"error_carga", "error_render"}
           qr      == IF pagina.estado = "ok" THEN QRDePagina(pagina) ELSE None
       IN  IF page_num >= PaginasARecorrer(Len(paginas))
           THEN /\ etapa' = "qr_finally"
                /\ UNCHANGED << page_num, qr_codes >>
           ELSE /\ page_num' = page_num + 1
                /\ IF programa = "app"
                   THEN IF ~falla /\ qr /= None
                        THEN qr_codes' = Append(qr_codes, qr) /\ etapa' = "qr_finally"
                        ELSE qr_codes' = qr_codes /\ etapa' = etapa
                   ELSE IF falla
                        THEN qr_codes' = qr_codes /\ etapa' = "qr_except"
                        ELSE /\ qr_codes' = (IF qr /= None THEN Append(qr_codes, qr)
                                                          ELSE qr_codes)
                             /\ etapa' = etapa
    /\ UNCHANGED << programa, entradas, varsAlmacen, solicitud, disco, temp_path,
                    texto, llamadas, resultado, respuesta >>

\* What extraer_qr_desde_pdf returns: [] from the except clause.
RetornoQR == IF etapa = "qr_except" THEN << >> ELSE qr_codes

\* Mutant: procesar_pdf_con_fallback calls the text stage whatever the QR
\* stage returned.
extraer_qr_finally_SiempreTexto ==
    /\ etapa \in {"qr_finally", "qr_except"}
    /\ BorrarTemporal
    /\ qr_codes' = RetornoQR
    /\ resultado' = resultado /\ etapa' = "texto"
    /\ UNCHANGED << programa, entradas, varsAlmacen, solicitud, texto, llamadas,
                    respuesta >>

\* extraer_qr_desde_pdf: finally and return; then procesar_pdf_con_fallback
\* returns the QR strings when there are any and calls the text stage
\* otherwise.
extraer_qr_finally ==
    /\ etapa \in {"qr_finally", "qr_except"}
    /\ BorrarTemporal
    /\ qr_codes' = RetornoQR
    /\ IF RetornoQR /= << >>
       THEN resultado' = << RetornoQR, "qr" >> /\ etapa' = "retorno"
       ELSE resultado' = resultado /\ etapa' = "texto"
    /\ UNCHANGED << programa, entradas, varsAlmacen, solicitud, texto, llamadas,
                    respuesta >>

\* The name of the text stage: app.extraer_datos_desde_texto_pdf,
\* PDFProcessor.extraer_texto_desde_pdf.
NombreEtapaTexto ==
    IF programa = "app" THEN "extraer_datos_desde_texto_pdf"
    ELSE "extraer_texto_desde_pdf"

\* The text stage, up to the open of the PDF.
extraer_texto_crear ==
    /\ etapa = "texto"
    /\ CrearTemporal("texto_abrir", "texto_except")
    /\ texto' = ""
    /\ Llamar(NombreEtapaTexto)
    /\ UNCHANGED << programa, entradas, varsAlmacen, solicitud, qr_codes, resultado,
                    respuesta >>

\* fitz.open(temp_path) of the text stage.
extraer_texto_abrir ==
    /\ etapa = "texto_abrir"
    /\ etapa' = (IF DocActual.abre THEN "texto_pagina" ELSE "texto_except")
    /\ UNCHANGED << programa, entradas, varsAlmacen, solicitud, disco, temp_path,
                    page_num, qr_codes, texto, llamadas, resultado, respuesta >>

\* One turn of the page loop of the text stage, or the call of the text
\* parser at its end.  app.py goes on to the next page after an exception;
\* PDFProcessor goes to its except clause.
extraer_texto_pagina ==
    /\ etapa = "texto_pagina"
    /\ LET paginas == DocActual.paginas
           pagina  == paginas[page_num + 1]
           falla   == pagina.estado = "error_carga"
       IN  IF page_num >= PaginasARecorrer(Len(paginas))
           THEN /\ etapa' = "texto_finally"
                /\ Llamar("parsear_texto_acta")
                /\ UNCHANGED << page_num, texto >>
           ELSE /\ page_num' = page_num + 1
                /\ texto' = (IF falla THEN texto ELSE texto \o pagina.texto)
                /\ etapa' = (IF falla /\ programa /= "app" THEN "texto_except"
                                                           ELSE etapa)
                /\ UNCHANGED llamadas
    /\ UNCHANGED << programa, entradas, varsAlmacen, solicitud, disco, temp_path,
                    qr_codes, resultado, respuesta >>

\* What the text stage returns at the time ahora, as the sequence of the
\* dict returned, empty for None: the parser's value, None from the except
\* clause.
RetornoTexto(ahora) ==
    IF etapa = "texto_except" THEN << >>
    ELSE IF programa = "app" THEN << parsear_texto_acta(texto, ahora) >>
    ELSE IF SinDatosMinimos(RegistroDeTexto(texto, ahora)) THEN << >>
    ELSE << DataParser_parsear_texto_acta(texto, ahora) >>

\* if registro: a dict is true when it has keys.
HayRegistro(r) == r /= << >> /\ DOMAIN r[1] /= {}

\* The text stage: finally and return; then procesar_pdf_con_fallback
\* returns the record when there is one and ([], 'fallo') otherwise.
extraer_texto_finally ==
    /\ etapa \in {"texto_finally", "texto_except"}
    /\ BorrarTemporal
    /\ \E ahora \in Relojes :
       \E registro \in {RetornoTexto(ahora)} :
         resultado' = (IF HayRegistro(registro) THEN << registro, "texto" >>
                                                ELSE << << >>, "fallo" >>)
    /\ etapa' = "retorno"
    /\ UNCHANGED << programa, entradas, varsAlmacen, solicitud, qr_codes, texto,
                    llamadas, respuesta >>

\* PDFProcessor.procesar_pdf_con_fallback(pdf_bytes) is called.
PDFProcessor_procesar_pdf_con_fallback(doc) ==
    /\ programa = "servicios"
    /\ etapa = "libre"
    /\ solicitud' = doc
    /\ etapa' = "qr"
    /\ Llamar("procesar_pdf_con_fallback")
    /\ UNCHANGED << programa, entradas, varsAlmacen, disco, temp_path, page_num,
                    qr_codes, texto, resultado, respuesta >>

(***************************************************************************)
(* app.py : the routes /procesar_pdf and /procesar_qr                      *)
(***************************************************************************)

RECURSIVE UltimoPunto(_, _)
\* Position of the last '.' of s at or before i, 0 when there is none.
UltimoPunto(s, i) ==
    IF i = 0 THEN 0
    ELSE IF Car(s, i) = "." THEN i
    ELSE UltimoPunto(s, i - 1)

ALLOWED_EXTENSIONS == {"pdf"}

\* '.' in filename and filename.rsplit('.', 1)[1].lower() in ALLOWED_EXTENSIONS
allowed_file(filename) ==
    /\ UltimoPunto(filename, Len(filename)) > 0
    /\ Lower(Desde(filename, UltimoPunto(filename, Len(filename)) + 1))
          \in ALLOWED_EXTENSIONS

\* validate_pdf_file(file): a FileStorage is false when its filename is
\* empty.
validate_pdf_file(file) ==
    IF ~Truthy(file.filename) THEN << FALSE, "No se recibió archivo" >>
    ELSE IF ~allowed_file(file.filename) THEN << FALSE, "El archivo debe ser un PDF" >>
    ELSE IF file.size > MAX_FILE_SIZE
    THEN << FALSE, "El archivo excede el tamaño máximo de "
                      \o ToString(MAX_FILE_SIZE \div (1024 * 1024)) \o " MB" >>
    ELSE IF file.size = 0 THEN << FALSE, "El archivo está vacío" >>
    ELSE << TRUE, "OK" >>

\* len(pdf_bytes) < 100
TamanoMinimoPDF == 100

Rechazo(message) == [success |-> FALSE, message |-> message]

\* Mutant: the test of the length of the bytes read is left out.
RechazoPDF_SinMinimo(files) ==
    IF files = << >> THEN Rechazo("No se recibió archivo PDF")
    ELSE IF ~validate_pdf_file(files[1])[1] THEN Rechazo(validate_pdf_file(files[1])[2])
    ELSE NoRet

\* What procesar_pdf answers before it calls the pipeline, NoRet when it
\* goes on to call it.
RechazoPDF(files) ==
    IF files = << >> THEN Rechazo("No se recibió archivo PDF")
    ELSE IF ~validate_pdf_file(files[1])[1] THEN Rechazo(validate_pdf_file(files[1])[2])
    ELSE IF files[1].size < TamanoMinimoPDF
    THEN Rechazo("El archivo PDF parece estar corrupto o vacío")
    ELSE NoRet

\* procesar_pdf(), lines 417-437: the upload is validated, and the pipeline
\* is called with its bytes when it is accepted.
procesar_pdf_validar(files) ==
    /\ programa = "app"
    /\ etapa = "libre"
    /\ solicitud' = files
    /\ IF RechazoPDF(files) /= NoRet
       THEN /\ respuesta' = RechazoPDF(files)
            /\ etapa' = "respondida"
            /\ llamadas' = (IF files = << >> THEN << "procesar_pdf" >>
                            ELSE << "procesar_pdf", "validate_pdf_file" >>)
       ELSE /\ respuesta' = respuesta
            /\ etapa' = "qr"
            /\ llamadas' = << "procesar_pdf", "validate_pdf_file",
                              "procesar_pdf_con_fallback" >>
    /\ UNCHANGED << programa, entradas, varsAlmacen, disco, temp_path, page_num,
                    qr_codes, texto, resultado >>

\* What guardar_registro(registro) returns on the store regs.
guardar_retorno(regs, registro) ==
    IF SinClaveApp(registro) THEN << FALSE, MensajeSinClaveApp >>
    ELSE IF \E i \in 1..Len(regs) : EsDuplicadoApp(regs[i], registro)
    THEN << FALSE, MensajeDuplicadoApp(registro) >>
    ELSE << TRUE, MensajeExitoApp(registro) >>

\* One turn of the loop of procesar_pdf, lines 452-464, for the record of
\* the item: acc holds the store, resultados, ok and errores so far, r is
\* what guardar_registro returns; cerrojo tells whether a call of
\* guardar_registro has reached its with _LOCK block (a record without key
\* is turned away before it).
Vuelta(acc, metodo, registro, r) ==
    [REGISTROS  |-> guardar_secuencial(acc.REGISTROS, registro),
     resultados |-> Append(acc.resultados,
                           [metodo |-> metodo, success |-> r[1], message |-> r[2]]),
     ok         |-> IF r[1] THEN acc.ok + 1 ELSE acc.ok,
     errores    |-> IF r[1] THEN acc.errores ELSE Append(acc.errores, r[2]),
     cerrojo    |-> acc.cerrojo \/ ~SinClaveApp(registro)]

\* The QR strings on the pages of the uploaded PDFs.
ItemsDeLote == { QR_A, QR_B, QR_SinClave }

\* parsear_qr of those strings, evaluated once.
ItemsAnalizados ==
    [ item \in ItemsDeLote |-> [ ahora \in Relojes |-> parsear_qr(item, ahora) ] ]

\* The record of an item: registro = parsear_qr(item) for a QR string, the
\* item itself otherwise.
RegistroDeItem(item, metodo, ahora) ==
    IF metodo = "qr"
    THEN IF item \in ItemsDeLote THEN ItemsAnalizados[item][ahora]
                                 ELSE parsear_qr(item, ahora)
    ELSE item

\* str(e) of the exception a turn of the loop can meet before it calls
\* guardar_registro (a MemoryError of parsear_qr: guardar_registro catches
\* its own exceptions).
ExcepcionesDeItem == {""}

\* One turn of the loop of procesar_pdf that raises, lines 466-467: the
\* message is added to errores, resultados gets no entry and the loop goes
\* on with the next item.
Excepcion(acc, e) ==
    [REGISTROS  |-> acc.REGISTROS,
     resultados |-> acc.resultados,
     ok         |-> acc.ok,
     errores    |-> Append(acc.errores, "Error al procesar registro: " \o e),
     cerrojo    |-> acc.cerrojo]

MensajeSinDatos ==
    "No se pudo extraer información del PDF. Verifique que sea un acta de "
       \o "nacimiento válida con código QR."

\* The thread that serves the request of the route.
Hilo == "ruta"

\* The dict d with the key k set to v.
Con(d, k, v) == [ x \in DOMAIN d \cup {k} |-> IF x = k THEN v ELSE d[x] ]

\* The answer of procesar_pdf, lines 473-487: fin holds the locals of the
\* handler (resultados, ok, errores, tabla_html), regs is the store at the
\* second call of obtener_registros.  tabla_html stands for the rows given
\* to the template.
RespuestaPDF(hallados, metodo, fin, regs) ==
    [success          |-> fin.ok > 0,
     message          |-> "Procesados " \o ToString(fin.ok) \o " de "
                             \o ToString(Len(hallados)) \o " registros exitosamente"
                             \o (IF fin.errores /= << >>
                                 THEN ". " \o ToString(Len(fin.errores)) \o " error(es)"
                                 ELSE ""),
     metodo_utilizado |-> metodo,
     resultados       |-> fin.resultados,
     total_registros  |-> Len(ListadoApp(regs)),
     tabla_html       |-> fin.tabla_html,
     procesados       |-> fin.ok,
     total            |-> Len(hallados),
     errores          |-> Len(fin.errores)]

\* procesar_pdf(), lines 443-449: the pipeline has returned; without items
\* the request is answered, otherwise the loop starts.  respuesta holds the
\* locals of the handler until the answer is built: resultados, ok, errores
\* and, while the loop runs, resto, the items the for statement has not
\* taken yet.
procesar_pdf_guardar ==
    /\ programa = "app"
    /\ etapa = "retorno"
    /\ IF resultado[1] = << >>
       THEN /\ respuesta' = Rechazo(MensajeSinDatos)
            /\ etapa' = "respondida"
       ELSE /\ respuesta' = [resultados |-> << >>, ok |-> 0, errores |-> << >>,
                             resto |-> resultado[1]]
            /\ etapa' = "bucle"
    /\ UNCHANGED << programa, entradas, varsAlmacen, solicitud, disco, temp_path,
                    page_num, qr_codes, texto, llamadas, resultado >>

\* for item in hallados, line 451: after a turn, whatever it left in sig,
\* the loop goes on while items are left.
Continua(resto, sig) == resto /= << >>

\* procesar_pdf(), lines 451-467: one turn of the loop.  The item is parsed
\* and given to guardar_registro, or the turn raises; _LOCK is taken inside
\* guardar_registro only, by the calls that get past the test of the key.
\* After the last item the handler goes on to the table.
procesar_pdf_item ==
    /\ programa = "app"
    /\ etapa = "bucle"
    /\ LET metodo == resultado[2]
           item   == Head(respuesta.resto)
           resto  == Tail(respuesta.resto)
           acc    == [REGISTROS |-> REGISTROS, resultados |-> respuesta.resultados,
                      ok |-> respuesta.ok, errores |-> respuesta.errores,
                      cerrojo |-> FALSE]
       IN  \E ahora \in Relojes :
           \E falla \in (IF metodo = "qr" THEN BOOLEAN ELSE {FALSE}) :
           \E sig \in (IF falla
                       THEN { Excepcion(acc, e) : e \in ExcepcionesDeItem }
                       ELSE { Vuelta(acc, metodo, registro,
                                     guardar_retorno(REGISTROS, registro)) :
                                registro \in {RegistroDeItem(item, metodo, ahora)} }) :
                /\ sig.cerrojo => PuedeAdquirir(LOCK, Hilo)
                /\ REGISTROS' = sig.REGISTROS
                /\ refs' = (IF Len(sig.REGISTROS) > Len(REGISTROS)
                            THEN RefsTrasAppend(refs, Len(REGISTROS))
                            ELSE refs)
                /\ respuesta' =
                     (IF Continua(resto, sig)
                      THEN [resultados |-> sig.resultados, ok |-> sig.ok,
                            errores |-> sig.errores, resto |-> resto]
                      ELSE [resultados |-> sig.resultados, ok |-> sig.ok,
                            errores |-> sig.errores])
                /\ etapa' = (IF Continua(resto, sig) THEN "bucle" ELSE "tabla")
                /\ llamadas' = llamadas
                      \o (IF metodo = "qr" THEN << "parsear_qr" >> ELSE << >>)
                      \o (IF falla THEN << >> ELSE << "guardar_registro" >>)
    /\ UNCHANGED << programa, entradas, inicial, registros, lock, LOCK, pc, op, arg,
                    ret, solicitud, disco, temp_path, page_num, qr_codes,
                    texto, resultado >>

\* procesar_qr(), lines 372-376: the route /procesar_qr with the value of
\* 'qr_data', up to the call of guardar_registro, which takes _LOCK once
\* the record has passed the test of its key.
procesar_qr(qr_data) ==
    /\ programa = "app"
    /\ etapa = "libre"
    /\ solicitud' = qr_data
    /\ LET data == Strip(qr_data, "\\s") IN
       IF ~Truthy(data)
       THEN /\ respuesta' = Rechazo("Datos QR vacíos")
            /\ llamadas' = << "procesar_qr" >>
            /\ etapa' = "respondida"
            /\ UNCHANGED << REGISTROS, refs >>
       ELSE \E ahora \in Relojes :
            \E registro \in {parsear_qr(data, ahora)} :
              LET r == guardar_retorno(REGISTROS, registro)
              IN  /\ SinClaveApp(registro) \/ PuedeAdquirir(LOCK, Hilo)
                  /\ REGISTROS' = guardar_secuencial(REGISTROS, registro)
                  /\ refs' = (IF r[1] THEN RefsTrasAppend(refs, Len(REGISTROS))
                                      ELSE refs)
                  /\ respuesta' = [success |-> r[1], message |-> r[2]]
                  /\ llamadas' = << "procesar_qr", "parsear_qr", "guardar_registro" >>
                  /\ etapa' = "tabla"
    /\ UNCHANGED << programa, entradas, inicial, registros, lock, LOCK, pc, op, arg,
                    ret, disco, temp_path, page_num, qr_codes, texto,
                    resultado >>

\* app.procesar_imagen_qr: None when b64decode or the detector raises or
\* imdecode gives None, data.strip() if data else None otherwise.
procesar_imagen_qr(imagen) ==
    IF imagen.estado /= "ok" THEN None
    ELSE IF Truthy(imagen.qr) THEN Strip(imagen.qr, "\\s") ELSE None

\* procesar_imagen_qr_route(), lines 391-397 and 406: the route
\* /procesar_imagen_qr with the value of 'image_data', up to the call of
\* guardar_registro.
procesar_imagen_qr_route(imagen) ==
    /\ programa = "app"
    /\ etapa = "libre"
    /\ solicitud' = imagen
    /\ IF ~Truthy(imagen.image_data)
       THEN /\ respuesta' = Rechazo("No se recibió imagen")
            /\ llamadas' = << "procesar_imagen_qr_route" >>
            /\ etapa' = "respondida"
            /\ UNCHANGED << REGISTROS, refs >>
       ELSE LET qr_text == procesar_imagen_qr(imagen) IN
            IF ~Truthy(qr_text)
            THEN /\ respuesta' = Rechazo("No se detectó QR")
                 /\ llamadas' = << "procesar_imagen_qr_route", "procesar_imagen_qr" >>
                 /\ etapa' = "respondida"
                 /\ UNCHANGED << REGISTROS, refs >>
            ELSE \E ahora \in Relojes :
                 \E registro \in {parsear_qr(qr_text, ahora)} :
                   LET r == guardar_retorno(REGISTROS, registro)
                   IN  /\ SinClaveApp(registro) \/ PuedeAdquirir(LOCK, Hilo)
                       /\ REGISTROS' = guardar_secuencial(REGISTROS, registro)
                       /\ refs' = (IF r[1] THEN RefsTrasAppend(refs, Len(REGISTROS))
                                           ELSE refs)
                       /\ respuesta' = [success |-> r[1], message |-> r[2],
                                        qr_data |-> qr_text]
                       /\ llamadas' = << "procesar_imagen_qr_route",
                                         "procesar_imagen_qr", "parsear_qr",
                                         "guardar_registro" >>
                       /\ etapa' = "tabla"
    /\ UNCHANGED << programa, entradas, inicial, registros, lock, LOCK, pc, op, arg,
                    ret, disco, temp_path, page_num, qr_codes, texto,
                    resultado >>

\* The three submit routes, lines 377, 398 and 470: the table is rendered
\* from a first call of obtener_registros.
renderizar_tabla ==
    /\ programa = "app"
    /\ etapa = "tabla"
    /\ PuedeAdquirir(LOCK, Hilo)
    /\ respuesta' = Con(respuesta, "tabla_html", ListadoApp(REGISTROS))
    /\ Llamar("obtener_registros")
    /\ etapa' = "total"
    /\ UNCHANGED << programa, entradas, varsAlmacen, solicitud, disco, temp_path,
                    page_num, qr_codes, texto, resultado >>

\* The three submit routes, lines 378-383, 399-405 and 473-487: the answer
\* is built, total_registros from a second call of obtener_registros.
responder ==
    /\ programa = "app"
    /\ etapa = "total"
    /\ PuedeAdquirir(LOCK, Hilo)
    /\ respuesta' = (IF llamadas[1] = "procesar_pdf"
                     THEN RespuestaPDF(resultado[1], resultado[2], respuesta, REGISTROS)
                     ELSE Con(respuesta, "total_registros", Len(ListadoApp(REGISTROS))))
    /\ Llamar("obtener_registros")
    /\ etapa' = "respondida"
    /\ UNCHANGED << programa, entradas, varsAlmacen, solicitud, disco, temp_path,
                    page_num, qr_codes, texto, resultado >>

\* The answer has been sent, or PDFProcessor's caller has the result: the
\* next request can come.  The store and the files stay.
terminar ==
    /\ \/ etapa = "respondida"
       \/ etapa = "retorno" /\ programa = "servicios"
    /\ etapa' = "libre"
    /\ solicitud' = NoArg
    /\ qr_codes' = << >>
    /\ texto' = ""
    /\ llamadas' = << >>
    /\ resultado' = NoRet
    /\ respuesta' = NoRet
    /\ UNCHANGED << programa, entradas, varsAlmacen, disco, temp_path, page_num >>

InitPDF ==
    /\ programa \in {"app", "servicios"}
    /\ entradas = {}
    /\ inicial = << >>
    /\ registros = << >>
    /\ lock = NoOwner
    /\ REGISTROS = << >>
    /\ LOCK = NoOwner
    /\ pc = [t \in Threads |-> "idle"]
    /\ op = [t \in Threads |-> NoOp]
    /\ arg = [t \in Threads |-> NoArg]
    /\ ret = [t \in Threads |-> NoRet]
    /\ refs = [t \in Threads |-> << >>]
    /\ PDFInactivo

NextPDF ==
    \/ \E files \in Subidas : procesar_pdf_validar(files)
    \/ \E doc \in Documentos : PDFProcessor_procesar_pdf_con_fallback(doc)
    \/ extraer_qr_crear
    \/ extraer_qr_abrir
    \/ extraer_qr_pagina
    \/ extraer_qr_finally
    \/ extraer_texto_crear
    \/ extraer_texto_abrir
    \/ extraer_texto_pagina
    \/ extraer_texto_finally
    \/ procesar_pdf_guardar
    \/ procesar_pdf_item
    \/ \E qr_data \in DatosQR : procesar_qr(qr_data)
    \/ renderizar_tabla
    \/ responder
    \/ terminar

SpecPDF == InitPDF /\ [][NextPDF]_vars

(***************************************************************************)
(* The key normalizer and the QR parser, called on their own               *)
(***************************************************************************)

\* Spellings of a label: as given, in capitals, capitalised, and with a
\* space after its first letter.
Variantes(etiqueta) ==
    { etiqueta, Upper(etiqueta), Upper(Car(etiqueta, 1)) \o Desde(etiqueta, 2),
      Car(etiqueta, 1) \o " " \o Desde(etiqueta, 2) }

\* The keys given to normalizar_clave: spellings of the labels of the table,
\* and keys that are not in it.
ClavesCrudas ==
    UNION { Variantes(etiqueta) : etiqueta \in DOMAIN MAPEO_CLAVES }
        \cup { "impresoen", "Munícipio", "FECHA IMPRESÍON", "Folio", "Oficial",
               "FechaRegistro", "Madre", "nombre", "FechaImpresión", "" }

\* The QR payload whose CURP value is followed by a label without comma.
QR_SinComa == "CURP:ABCD123456HTLXYZ01Folio:99999"

\* The payloads given to parsear_qr.
PayloadsQR ==
    { QR_A, QR_B, QR_SinClave, QR_SinComa,
      "CURP:ABCD123456HTLXYZ01,Folio:99999",
      "Tomo:1CURP:ABCD123456HTLXYZ01",
      "Impreso en:3,cadena:123",
      "Padre1:JUAN,Padre2:ANA",
      "curp: ABCD123456HTLXYZ01 ;",
      "sin pares", "" }

\* normalizar_clave(raw_key) is called.
llamar_normalizar_clave(raw_key) ==
    /\ etapa = "libre"
    /\ solicitud' = raw_key
    /\ resultado' = normalizar_clave(raw_key)
    /\ llamadas' = << "normalizar_clave" >>
    /\ etapa' = "retorno"
    /\ UNCHANGED << programa, entradas, varsAlmacen, disco, temp_path, page_num,
                    qr_codes, texto, respuesta >>

\* parsear_qr(data) is called.
llamar_parsear_qr(data) ==
    /\ etapa = "libre"
    /\ solicitud' = data
    /\ \E ahora \in Relojes : resultado' = parsear_qr(data, ahora)
    /\ llamadas' = << "parsear_qr" >>
    /\ etapa' = "retorno"
    /\ UNCHANGED << programa, entradas, varsAlmacen, disco, temp_path, page_num,
                    qr_codes, texto, respuesta >>

\* The caller has the value; the next call can come.
retomar ==
    /\ etapa = "retorno"
    /\ etapa' = "libre"
    /\ solicitud' = NoArg
    /\ resultado' = NoRet
    /\ llamadas' = << >>
    /\ UNCHANGED << programa, entradas, varsAlmacen, disco, temp_path, page_num,
                    qr_codes, texto, respuesta >>

NextQR ==
    \/ \E raw_key \in ClavesCrudas : llamar_normalizar_clave(raw_key)
    \/ \E data \in PayloadsQR : llamar_parsear_qr(data)
    \/ retomar

\* The functions are those of app.py ("app") and of KeyMapping and
\* DataParser ("servicios").
SpecQR == InitPDF /\ [][NextQR]_vars

(***************************************************************************)
(* The submit routes of app.py while another request inserts and clears    *)
(***************************************************************************)

\* What the collaborators yield for the image of a request to
\* /procesar_imagen_qr: image_data is the value sent; estado is "ok",
\* "sin_imagen" (cv2.imdecode gives None) or "error" (b64decode or the
\* detector raises); qr is what detectAndDecode gives.
Imagen(image_data, estado, qr) == [image_data |-> image_data, estado |-> estado, qr |-> qr]

Imagenes ==
    { Imagen("", "ok", ""),
      Imagen("data:image/png;base64,iVBORw0KGgo=", "ok", " " \o QR_A \o "\n"),
      Imagen("iVBORw0KGgo=", "ok", "  "),
      Imagen("iVBORw0KGgo=", "sin_imagen", ""),
      Imagen("%%%", "error", "") }

\* The uploads of the requests to /procesar_pdf that run beside the client:
\* a PDF with a QR, a PDF with text only, no file.
SubidasEnvio ==
    { << Archivo("acta.pdf", 2048, Documento(TRUE, << Pagina("ok", QR_SinClave, "") >>)) >>,
      << Archivo("acta.pdf", 2048, Documento(TRUE, << Pagina("ok", "", TextoActa) >>)) >>,
      << >> }

\* The payloads of the requests to /procesar_qr that run beside the client.
DatosQREnvio == { QR_B, "" }

\* The thread of the other client, and the dicts it inserts.
Clientes == {"t1"}

EntradasEnvio == { [Folio |-> "456", FechaEscaneo |-> T2] }

InitEnvio ==
    /\ programa = "app"
    /\ entradas = EntradasEnvio
    /\ inicial = << >>
    /\ registros = << >>
    /\ lock = NoOwner
    /\ REGISTROS = << >>
    /\ LOCK = NoOwner
    /\ pc = [t \in Threads |-> "idle"]
    /\ op = [t \in Threads |-> NoOp]
    /\ arg = [t \in Threads |-> NoArg]
    /\ ret = [t \in Threads |-> NoRet]
    /\ refs = [t \in Threads |-> << >>]
    /\ PDFInactivo

NextEnvio ==
    \/ \E qr_data \in DatosQREnvio : procesar_qr(qr_data)
    \/ \E imagen \in Imagenes : procesar_imagen_qr_route(imagen)
    \/ \E files \in SubidasEnvio : procesar_pdf_validar(files)
    \/ extraer_qr_crear
    \/ extraer_qr_abrir
    \/ extraer_qr_pagina
    \/ extraer_qr_finally
    \/ extraer_texto_crear
    \/ extraer_texto_abrir
    \/ extraer_texto_pagina
    \/ extraer_texto_finally
    \/ procesar_pdf_guardar
    \/ procesar_pdf_item
    \/ renderizar_tabla
    \/ responder
    \/ terminar
    \/ \E t \in Clientes :
          \/ \E registro \in entradas : guardar_registro_inicio(t, registro)
          \/ guardar_registro_verificar(t)
          \/ guardar_registro_append(t)
          \/ limpiar_registros(t)
          \/ retornar(t)

SpecEnvio == InitEnvio /\ [][NextEnvio]_vars

(***************************************************************************)
(* Properties                                                              *)
(***************************************************************************)

\* The store of the running program.
Almacen == IF programa = "registro" THEN registros ELSE REGISTROS

EsInsercion(t) == op[t] \in {"agregar", "guardar_registro"}

\* Folio and CURP of the record thread t inserts ('' when unset).
FolioDe(t) == GetDef(arg[t], "Folio", "")
CurpDe(t)  == GetDef(arg[t], "CURP", "")

\* No two records of regs share a non-empty value of the field campo.
SinRepetidos(regs, campo) ==
    \A i, j \in 1..Len(regs) :
        (i /= j /\ regs[i][campo] /= "") => regs[i][campo] /= regs[j][campo]

\* C1: in every reachable state, under any interleaving of insert and clear
\* calls, no two stored records share a non-empty Folio and no two share a
\* non-empty CURP, in RegistroManager's store and in app.py's.
C1_DedupInvariant ==
    /\ SinRepetidos(registros, "Folio") /\ SinRepetidos(registros, "CURP")
    /\ SinRepetidos(REGISTROS, "Folio") /\ SinRepetidos(REGISTROS, "CURP")

\* A store of two records, and a call just rejected because its CURP is
\* stored already although its Folio is new.
C1_Witness ==
    /\ Len(Almacen) = 2
    /\ \E t \in Threads :
         /\ pc[t] = "done" /\ EsInsercion(t) /\ ret[t][1] = FALSE
         /\ FolioDe(t) /= ""
         /\ \A i \in 1..Len(Almacen) : Almacen[i].Folio /= FolioDe(t)
         /\ \E i \in 1..Len(Almacen) : Almacen[i].CURP = CurpDe(t)

\* Both racing calls have returned.
Terminaron == \A t \in Threads : pc[t] = "done"

\* Thread t got the duplicate rejection naming the Folio of its record.
RechazoPorFolio(t) ==
    ret[t] = << FALSE, "Acta DUPLICADA. Ya existe Folio: " \o FolioDe(t)
                         \o (IF programa = "app" THEN "." ELSE "") >>

UnoGanaOtroDuplicado ==
    \E t, u \in Threads :
        t /= u /\ ret[t][1] = TRUE /\ RechazoPorFolio(u)

\* C2 as stated: two concurrent inserts of records with one non-empty Folio,
\* on a store below capacity that does not hold that Folio, end with exactly
\* one success and one duplicate rejection.
C2_Original == Terminaron => UnoGanaOtroDuplicado

\* Neither record's non-empty CURP is stored when the calls are made.
CurpLibre ==
    \A t \in Threads : \A i \in 1..Len(inicial) :
        CurpDe(t) = "" \/ inicial[i].CURP /= CurpDe(t)

\* RegistroManager's store has room for two more records.
LugarParaDos == programa = "registro" => Len(inicial) + 2 <= MAX_REGISTROS_MEMORIA

\* C2 amended: the same, when moreover the store holds neither record's
\* non-empty CURP and RegistroManager's store has room for two records.
C2_RaceOneWins == (Terminaron /\ CurpLibre /\ LugarParaDos) => UnoGanaOtroDuplicado

\* Two different records of one Folio raced on a non-empty store.
C2_Witness ==
    /\ Terminaron /\ CurpLibre /\ LugarParaDos
    /\ Len(inicial) >= 1
    /\ CurpDe("t1") /= CurpDe("t2")
    /\ Len(Almacen) = Len(inicial) + 1

\* In this step thread t's agregar call is decided: it returns, or it goes on
\* to append.
AgregarDecide(t) ==
    /\ op'[t] = "agregar"
    /\ pc[t] \in {"idle", "lock"}
    /\ pc'[t] \in {"done", "append"}

RechazaPorLimite(t) ==
    /\ pc'[t] = "done"
    /\ ret'[t] = <<FALSE, MensajeLimite>>
    /\ registros' = registros

\* C3 as stated: RegistroManager never stores more than MAX_REGISTROS_MEMORIA
\* records, and every agregar call decided while the store holds that many
\* returns failure with the capacity message and leaves the store unchanged.
C3_Original ==
    [][ /\ Len(registros') <= MAX_REGISTROS_MEMORIA
        /\ \A t \in Threads :
             (AgregarDecide(t) /\ Len(registros) = MAX_REGISTROS_MEMORIA)
                => RechazaPorLimite(t) ]_vars

\* C3 amended: the same for every agregar call whose record has a non-empty
\* Folio or CURP (a record without either is turned away with the
\* missing-identity message before the capacity is looked at).
C3_CapacityBound ==
    [][ /\ Len(registros') <= MAX_REGISTROS_MEMORIA
        /\ \A t \in Threads :
             ( /\ AgregarDecide(t)
               /\ Len(registros) = MAX_REGISTROS_MEMORIA
               /\ (GetDef(arg'[t], "Folio", "") /= "" \/ GetDef(arg'[t], "CURP", "") /= "") )
                => RechazaPorLimite(t) ]_vars

\* A full store, and an agregar call of a new key just rejected for capacity.
C3_Witness ==
    /\ programa = "registro"
    /\ Len(registros) = MAX_REGISTROS_MEMORIA
    /\ \E t \in Threads :
         /\ pc[t] = "done" /\ op[t] = "agregar"
         /\ ret[t] = <<FALSE, MensajeLimite>>
         /\ \A i \in 1..Len(registros) :
              registros[i].Folio /= FolioDe(t) \/ FolioDe(t) = ""

\* C4: app.py's REGISTROS never holds more records than the configured
\* maximum of records in memory.
C4_AppCapacity == Len(REGISTROS) <= MAX_REGISTROS_MEMORIA

\* In this step thread t calls insert.
InsercionLlamada(t) ==
    pc[t] = "idle" /\ op'[t] \in {"agregar", "guardar_registro"}

\* In this step thread t's insert runs its critical section up to the verdict.
InsercionVerificada(t) ==
    op[t] \in {"agregar", "guardar_registro"} /\ pc[t] = "lock" /\ pc'[t] /= "lock"

TieneClave(r) == r.Folio /= "" \/ r.CURP /= ""

\* C5: an insert of a record whose Folio and CURP are both empty returns
\* failure with the missing-identity message and leaves the store unchanged,
\* whatever the store holds; and every stored record has a non-empty Folio or
\* a non-empty CURP.
C5_MissingIdentity ==
    [][ /\ \A t \in Threads :
             ( /\ InsercionLlamada(t)
               /\ GetDef(arg'[t], "Folio", "") = ""
               /\ GetDef(arg'[t], "CURP", "") = "" )
             => /\ pc'[t] = "done"
                /\ ret'[t] = << FALSE,
                                IF programa = "registro"
                                THEN "Error: No se encontró Folio ni CURP en el registro"
                                ELSE "Error: No se encontró Folio ni CURP en el código QR." >>
                /\ Almacen' = Almacen
        /\ \A i \in 1..Len(Almacen') : TieneClave(Almacen'[i]) ]_vars

\* A record without key was just turned away from a non-empty store.
C5_Witness ==
    /\ Len(Almacen) >= 1
    /\ \E t \in Threads :
         /\ pc[t] = "done" /\ EsInsercion(t)
         /\ FolioDe(t) = "" /\ CurpDe(t) = ""
         /\ ret[t][1] = FALSE

\* The record of thread t matches a record of regs on a non-empty Folio or on
\* a non-empty CURP.
Coincide(regs, t) ==
    \E i \in 1..Len(regs) :
        \/ (FolioDe(t) /= "" /\ regs[i].Folio = FolioDe(t))
        \/ (CurpDe(t) /= "" /\ regs[i].CURP = CurpDe(t))

\* C6: an insert of a record that matches a stored record on a non-empty
\* Folio or on a non-empty CURP returns failure and leaves the store's
\* contents and count unchanged, whatever its other identity field is.
C6_DuplicateRejected ==
    [][ \A t \in Threads :
          (InsercionVerificada(t) /\ Coincide(Almacen, t))
          => /\ pc'[t] = "done"
             /\ ret'[t][1] = FALSE
             /\ Almacen' = Almacen
             /\ Len(Almacen') = Len(Almacen) ]_vars

\* A stored, then B with A's Folio and a CURP no stored record has: B is
\* rejected and the count is 1.
C6_Witness ==
    /\ Len(Almacen) = 1
    /\ \E t \in Threads :
         /\ pc[t] = "done" /\ EsInsercion(t) /\ ret[t][1] = FALSE
         /\ FolioDe(t) = "123" /\ Almacen[1].Folio = "123"
         /\ CurpDe(t) /= "" /\ Almacen[1].CURP /= "" /\ Almacen[1].CURP /= CurpDe(t)

\* The duplicate message that names the field campo and the value valor.
MensajeNombra(campo, valor) ==
    "Acta DUPLICADA. Ya existe " \o campo \o ": " \o valor
       \o (IF programa = "app" THEN "." ELSE "")

\* In this step thread t's insert is rejected as a duplicate.
RechazoDuplicado(t) ==
    /\ InsercionVerificada(t)
    /\ pc'[t] = "done"
    /\ ret'[t][1] = FALSE
    /\ ~(programa = "registro" /\ ret'[t][2] = MensajeLimite)

\* C7: the message of a duplicate rejection names a field and a value on
\* which the candidate matches a stored record.
C7_MessageNamesCollision ==
    [][ \A t \in Threads :
          RechazoDuplicado(t)
          => \E campo \in {"Folio", "CURP"} :
                /\ GetDef(arg[t], campo, "") /= ""
                /\ \E i \in 1..Len(Almacen) :
                      Almacen[i][campo] = GetDef(arg[t], campo, "")
                /\ ret'[t][2] = MensajeNombra(campo, GetDef(arg[t], campo, "")) ]_vars

\* In this step thread t calls listAll and gets its result.
ListaDevuelta(t) ==
    pc[t] = "idle" /\ op'[t] \in {"obtener_todos", "obtener_registros"}

\* How often x occurs in seq.
Ocurrencias(seq, x) == Cardinality({ i \in 1..Len(seq) : seq[i] = x })

Rango(seq) == { seq[i] : i \in 1..Len(seq) }

\* L is in non-increasing order of FechaEscaneo.
OrdenDescendente(L) ==
    \A i, j \in 1..Len(L) :
        i < j => ~StrLess(L[i].FechaEscaneo, L[j].FechaEscaneo)

\* L holds exactly the records of regs, each as often as regs does.
MismosRegistros(L, regs) ==
    /\ Len(L) = Len(regs)
    /\ \A x \in Rango(L) \cup Rango(regs) : Ocurrencias(L, x) = Ocurrencias(regs, x)

\* C8: under any interleaving, the sequence listAll returns is sorted by
\* FechaEscaneo in non-increasing order and holds exactly the records stored
\* at the moment of the call.
C8_ListSortedDesc ==
    [][ \A t \in Threads :
          ListaDevuelta(t)
          => /\ OrdenDescendente(ret'[t])
             /\ MismosRegistros(ret'[t], Almacen) ]_vars

\* A listing of three records with different timestamps whose order is not
\* the order of insertion.
C8_Witness ==
    \E t \in Threads :
        /\ pc[t] = "done" /\ op[t] \in {"obtener_todos", "obtener_registros"}
        /\ Len(ret[t]) = 3 /\ Len(Almacen) = 3
        /\ ret[t] = << Almacen[2], Almacen[3], Almacen[1] >>
        /\ StrLess(ret[t][3].FechaEscaneo, ret[t][1].FechaEscaneo)

\* In this step thread t's insert appends its record and returns success.
InsercionAnexada(t) ==
    op[t] \in {"agregar", "guardar_registro"} /\ pc[t] = "append" /\ pc'[t] = "done"

\* The 16 canonical fields with the values of datos, '' where datos sets none.
Canonico(datos) ==
    [ h \in { "Tomo", "Libro", "Foja", "Acta", "Entidad", "Municipio", "CURP",
              "Registrado", "Padre", "Madre", "FechaNacimiento", "Sexo",
              "FechaRegistro", "Oficial", "Folio", "FechaEscaneo" } |->
        IF h \in DOMAIN datos THEN datos[h] ELSE "" ]

\* C9: a successful insert stores the 16 canonical fields with the values of
\* the submitted data, '' for every field it did not set and no other field,
\* and listAll returns every stored record with exactly those fields and values.
C9_RoundTrip ==
    [][ \A t \in Threads :
          /\ InsercionAnexada(t)
             => /\ ret'[t][1] = TRUE
                /\ Almacen' = Append(Almacen, Canonico(arg[t]))
          /\ ListaDevuelta(t)
             => /\ \A i \in 1..Len(ret'[t]) :
                     /\ DOMAIN ret'[t][i] = DOMAIN Canonico(<< >>)
                     /\ Cardinality(DOMAIN ret'[t][i]) = 16
                /\ \A j \in 1..Len(Almacen) :
                     \E i \in 1..Len(ret'[t]) :
                        \A h \in DOMAIN Canonico(<< >>) :
                           ret'[t][i][h] = Almacen[j][h] ]_vars

\* A listing that returns a record inserted from a dict with unset canonical
\* fields and a non-canonical key.
C9_Witness ==
    \E t \in Threads :
        /\ pc[t] = "done" /\ op[t] \in {"obtener_todos", "obtener_registros"}
        /\ \E d \in entradas :
             /\ "folio" \in DOMAIN d
             /\ "Folio" \notin DOMAIN d
             /\ \E i \in 1..Len(ret[t]) :
                  /\ ret[t][i] = Canonico(d)
                  /\ ret[t][i].Folio = "" /\ ret[t][i].Padre = "PEDRO"

\* In this step thread t calls clear and gets its result.
LimpiezaHecha(t) ==
    pc[t] = "idle" /\ op'[t] \in {"limpiar", "limpiar_registros"}

\* The string s contains the string sub.
Contiene(s, sub) ==
    \E i \in 1..(Len(s) - Len(sub) + 1) : SubSeq(s, i, i + Len(sub) - 1) = sub

\* The value clear returned tells the number n.
NombraCantidad(t, n) ==
    IF op'[t] = "limpiar"
    THEN ret'[t][1] = TRUE /\ Contiene(ret'[t][2], ToString(n))
    ELSE ret'[t].success = TRUE /\ Contiene(ret'[t].message, ToString(n))

\* C10: clear on a store of n records (n successful inserts into an empty
\* store) returns n as the count of records removed, and leaves a store
\* whose count is 0.
C10_ClearReturnsCount ==
    [][ \A t \in Threads :
          LimpiezaHecha(t)
          => /\ NombraCantidad(t, Len(Almacen))
             /\ Len(Almacen') = 0 ]_vars

\* In this step the caller changes the list thread t holds from a listing.
CambioDelLlamador(t) ==
    /\ EsListado(t) /\ pc'[t] = "done"
    /\ ret'[t] /= ret[t]

\* What listAll returns for the stores regs (RegistroManager) and REGS (app).
ListaDe(regs, REGS) ==
    IF programa = "registro" THEN Listado(regs, TRUE) ELSE ListadoApp(REGS)

\* C11: changing a field of a record obtained from listAll, or reordering or
\* truncating the returned sequence, does not change the stored state: a
\* listAll called after the change returns the same records with the same
\* field values as one called before it.
C11_NoAliasing ==
    [][ \A t \in Threads :
          CambioDelLlamador(t)
          => ListaDe(registros', REGISTROS') = ListaDe(registros, REGISTROS) ]_vars


\* The text stage has been called in the request being served.
EtapaTextoLlamada ==
    \E i \in 1..Len(llamadas) : llamadas[i] = NombreEtapaTexto

\* procesar_pdf_con_fallback has returned.
FallbackRetorno == etapa = "retorno"

\* C12: procesar_pdf_con_fallback returns one of three outcomes: the QR
\* strings with method 'qr' when the QR stage returned at least one, the
\* text stage not having run; a one-element list with method 'texto' when
\* the QR stage returned none and the text stage a record; the empty list
\* with method 'fallo' when both returned nothing.
C12_TresResultados ==
    FallbackRetorno =>
        IF qr_codes /= << >>
        THEN /\ resultado[2] = "qr"
             /\ resultado[1] = qr_codes
             /\ ~EtapaTextoLlamada
        ELSE /\ EtapaTextoLlamada
             /\ \/ resultado[2] = "texto" /\ Len(resultado[1]) = 1
                \/ resultado[2] = "fallo" /\ resultado[1] = << >>

\* The QR stage returned nothing and the text stage's record is returned.
C12_Witness ==
    /\ FallbackRetorno
    /\ qr_codes = << >>
    /\ resultado[2] = "texto"
    /\ Len(resultado[1]) = 1

\* C13: the pipeline never returns method 'texto' with a record whose CURP
\* and Folio are both empty: the text parser returns None for a text in
\* which neither is found, also when other fields are.
C13_SinIdentidadAusente ==
    (FallbackRetorno /\ resultado[2] = "texto")
        => ~SinDatosMinimos(resultado[1][1])

\* No stage of the PDF pipeline is running.
FueraDeEtapa == etapa \in {"libre", "texto", "retorno", "respondida"}

\* C14: when the QR stage or the text stage has returned, normally or after
\* an error while writing, opening or processing the PDF, the temporary file
\* it created no longer exists.
C14_TemporalBorrado == FueraDeEtapa => disco = {}

\* C15: the QR stage and the text stage load at most the page cap of pages
\* of a PDF, however many pages it has (page_num counts the pages the
\* running stage has loaded).
C15_TopeDePaginas == page_num <= MAX_PDF_PAGES

\* procesar_pdf has answered for the items the pipeline returned.
RespuestaDeLote ==
    /\ programa = "app"
    /\ etapa = "respondida"
    /\ resultado /= NoRet
    /\ resultado[1] /= << >>

\* The pages of the PDF that lie within the page cap.
DentroDelTope(doc) ==
    1..(IF Len(doc.paginas) < MAX_PDF_PAGES THEN Len(doc.paginas) ELSE MAX_PDF_PAGES)

\* Page i renders to an image that decodes to a non-empty QR string.
PaginaConQR(doc, i) ==
    doc.paginas[i].estado = "ok" /\ QRDePagina(doc.paginas[i]) /= None

\* The QR strings of the pages within the cap, in page order.
QREsperados(doc) ==
    LET n == Cardinality(DentroDelTope(doc))
        leidos == [ i \in 1..n |-> IF PaginaConQR(doc, i)
                                   THEN QRDePagina(doc.paginas[i]) ELSE None ]
    IN  SelectSeq(leidos, LAMBDA q : q /= None)

\* No page of the PDF raises while it is loaded or rendered.
SinPaginaFallida(doc) ==
    \A i \in 1..Len(doc.paginas) :
        doc.paginas[i].estado \notin {"error_carga", "error_render"}

\* C16: procesar_pdf attempts every extracted item for insertion whatever
\* the outcome of the items before it (duplicate, missing identity or an
\* exception): when it answers for a PDF whose pages give QR strings, each
\* of them has been taken up by the loop, and the answer has total the
\* number of items, procesados + errores = total, and success true exactly
\* when procesados > 0.
C16_ConteoDelLote ==
    ( /\ RespuestaDeLote
      /\ resultado[2] = "qr"
      /\ SinPaginaFallida(DocActual)
      /\ Len(DocActual.paginas) <= MAX_PDF_PAGES )
    => /\ Ocurrencias(llamadas, "parsear_qr") = Len(QREsperados(DocActual))
       /\ respuesta.total = Len(QREsperados(DocActual))
       /\ respuesta.procesados + respuesta.errores = respuesta.total
       /\ respuesta.success <=> (respuesta.procesados > 0)

\* The request being served is one the routes reject as input: an empty QR
\* payload, no file, a file name that is not a PDF's, a file larger than
\* the maximum, of zero bytes or of fewer than 100.
EntradaRechazada ==
    IF llamadas[1] = "procesar_qr" THEN Strip(solicitud, "\\s") = ""
    ELSE \/ solicitud = << >>
         \/ ~allowed_file(solicitud[1].filename)
         \/ solicitud[1].size > MAX_FILE_SIZE
         \/ solicitud[1].size < TamanoMinimoPDF

\* No parser and no stage of the pipeline has been called in the request.
SinAnalisis ==
    \A i \in 1..Len(llamadas) :
        llamadas[i] \notin {"parsear_qr", "parsear_texto_acta", "procesar_pdf_con_fallback",
                            "extraer_qr_desde_pdf", "extraer_datos_desde_texto_pdf",
                            "guardar_registro"}

\* A request comes in to a route of app.py.
LlegaSolicitud == programa = "app" /\ etapa = "libre" /\ etapa' /= "libre"

\* C17: a submit request rejected as input is answered at once with a
\* failure and a reason, no parser and no stage of the pipeline is called,
\* and the record store is left as it was.
C17_RechazoSinAnalisis ==
    [][ (LlegaSolicitud /\ EntradaRechazada')
          => /\ etapa' = "respondida"
             /\ respuesta'.success = FALSE
             /\ Truthy(respuesta'.message)
             /\ SinAnalisis'
             /\ REGISTROS' = REGISTROS ]_vars

\* A file larger than the maximum has been rejected while the store holds
\* a record.
C17_Witness ==
    /\ programa = "app"
    /\ etapa = "respondida"
    /\ llamadas[1] = "procesar_pdf"
    /\ solicitud /= << >>
    /\ solicitud[1].size > MAX_FILE_SIZE
    /\ ~respuesta.success
    /\ REGISTROS /= << >>

\* What agregar returns for the dict datos on the store regs, called alone.
agregar_retorno(regs, datos) ==
    LET registro == crear_desde_dict(datos) IN
    IF SinClave(registro) THEN << FALSE, MensajeSinClave >>
    ELSE IF LimiteAlcanzado(regs) THEN << FALSE, MensajeLimite >>
    ELSE IF \E i \in 1..Len(regs) : EsDuplicado(regs[i], registro)
    THEN << FALSE, MensajeDuplicado(registro) >>
    ELSE << TRUE, MensajeExito(registro) >>

\* What the call o with argument a returns on the store regs, called alone.
RetornoSecuencial(o, a, regs) ==
    CASE o = "agregar"           -> agregar_retorno(regs, a)
      [] o = "guardar_registro"  -> guardar_retorno(regs, a)
      [] o = "obtener_todos"     -> Listado(regs, TRUE)
      [] o = "obtener_registros" -> ListadoApp(regs)
      [] o = "contar"            -> Len(regs)
      [] o = "limpiar"           -> << TRUE, MensajeLimpiar(Len(regs)) >>
      [] o = "limpiar_registros" -> RespuestaLimpiar

\* The store the call o with argument a leaves from regs, called alone.
AlmacenSecuencial(o, a, regs) ==
    CASE o = "agregar"           -> agregar_secuencial(regs, a)
      [] o = "guardar_registro"  -> guardar_secuencial(regs, a)
      [] o = "limpiar"           -> << >>
      [] o = "limpiar_registros" -> << >>
      [] OTHER                   -> regs

\* The call of thread t ends in this step.
Completa(t) == pc[t] /= "done" /\ pc'[t] = "done"

\* C18: the calls of several threads take effect one at a time, each at the
\* step that ends it: the call returns what it returns when called alone on
\* the store of that moment and leaves the store it leaves when called
\* alone; no other step changes the store, so no listing or count sees an
\* insert or a clear partly applied.
C18_Linealizable ==
    [][ /\ \A t \in Threads :
             Completa(t)
             => /\ ret'[t] = RetornoSecuencial(op'[t], arg'[t], Almacen)
                /\ Almacen' = AlmacenSecuencial(op'[t], arg'[t], Almacen)
        /\ (\A t \in Threads : ~Completa(t)) => Almacen' = Almacen ]_vars

\* An insert has been stored while the other thread's insert waits for the
\* lock, the store holding two records.
C18_Witness ==
    /\ pc["t1"] = "done"
    /\ op["t1"] \in {"agregar", "guardar_registro"}
    /\ ret["t1"][1] = TRUE
    /\ pc["t2"] = "lock"
    /\ Len(Almacen) = 2

\* normalizar_clave has returned for the key in solicitud.
ClaveNormalizada == etapa = "retorno" /\ llamadas = << "normalizar_clave" >>

\* The labels of the table that are the key when both are lower-cased, rid
\* of spaces and have 'í' replaced by 'i'.
EtiquetasDe(raw_key) ==
    { etiqueta \in DOMAIN MAPEO_CLAVES :
        ClaveDeBusqueda(etiqueta) = ClaveDeBusqueda(raw_key) }

\* C19: the key normalizer maps every spelling of a raw label of its table
\* (any letter case and spacing, 'í' for 'i') to the label's canonical
\* column, 'impreso en' to Oficial among them, and returns every other key
\* unchanged.
C19_TablaDeClaves ==
    ClaveNormalizada =>
        IF EtiquetasDe(solicitud) /= {}
        THEN \A etiqueta \in EtiquetasDe(solicitud) : resultado = MAPEO_CLAVES[etiqueta]
        ELSE resultado = solicitud

\* C20: for the payload "CURP:ABCD123456HTLXYZ01Folio:99999" parsear_qr
\* yields CURP and the label that follows it as two fields:
\* CURP = ABCD123456HTLXYZ01 and Folio = 99999.
C20_SinComa ==
    (etapa = "retorno" /\ llamadas = << "parsear_qr" >> /\ solicitud = QR_SinComa)
        => /\ Get(resultado, "CURP") = CURP_A
           /\ Get(resultado, "Folio") = "99999"

\* The success message that names the field campo and the value valor.
MensajeRegistrada(campo, valor) ==
    "Acta registrada (" \o campo \o ": " \o valor \o ") exitosamente"

\* Thread t is between the scan and the append of its insert, lock held.
InsercionPendiente(t) == EsInsercion(t) /\ pc[t] = "append"

\* C21: an insert of a record with a non-empty Folio or CURP that matches no
\* stored record on a non-empty Folio or CURP, into a store below capacity,
\* returns success, increases the count by exactly 1, places the new record
\* last in the insertion order and leaves every stored record and their
\* order unchanged; the message names Folio when the record's Folio is
\* non-empty and CURP otherwise.
C21_InsertAppends ==
    [][ \A t \in Threads :
          /\ ( /\ InsercionVerificada(t)
               /\ (FolioDe(t) /= "" \/ CurpDe(t) /= "")
               /\ ~Coincide(Almacen, t)
               /\ Len(Almacen) < MAX_REGISTROS_MEMORIA )
             => /\ pc'[t] = "append"
                /\ Almacen' = Almacen
          /\ (InsercionPendiente(t) /\ pc'[t] = "append") => Almacen' = Almacen
          /\ InsercionAnexada(t)
             => /\ ret'[t][1] = TRUE
                /\ Len(Almacen') = Len(Almacen) + 1
                /\ Almacen'[Len(Almacen')] = Canonico(arg[t])
                /\ \A i \in 1..Len(Almacen) : Almacen'[i] = Almacen[i]
                /\ ret'[t][2] = IF FolioDe(t) /= ""
                                THEN MensajeRegistrada("Folio", FolioDe(t))
                                ELSE MensajeRegistrada("CURP", CurpDe(t)) ]_vars

\* A record with a CURP and no Folio was just appended behind a stored
\* record, and its message names the CURP.
C21_Witness ==
    /\ Len(Almacen) = 2
    /\ \E t \in Threads :
         /\ pc[t] = "done" /\ EsInsercion(t)
         /\ FolioDe(t) = "" /\ CurpDe(t) = CURP_A
         /\ Almacen[2] = Canonico(arg[t])
         /\ Almacen[1].Folio = "123"
         /\ ret[t] = << TRUE, "Acta registrada (CURP: ABCD123456HTLXYZ01) exitosamente" >>

\* In this step the QR stage returns after its page loop has ended.
RetornaEtapaQR == etapa = "qr_finally" /\ etapa' /= "qr_finally"

\* C22: for a PDF in which several pages within the page cap each decode to
\* a non-empty QR string, extraer_qr_desde_pdf returns one entry per such
\* page, in page order; no QR string of a later page is dropped because an
\* earlier page yielded one.
C22_TodosLosQR ==
    [][ ( /\ RetornaEtapaQR
          /\ SinPaginaFallida(DocActual)
          /\ Len(DocActual.paginas) <= MAX_PDF_PAGES
          /\ Cardinality({ i \in DentroDelTope(DocActual) :
                             PaginaConQR(DocActual, i) }) >= 2 )
        => qr_codes' = QREsperados(DocActual) ]_vars

\* s is the sequence t or the first entries of it.
EsPrefijo(s, t) == Len(s) <= Len(t) /\ \A i \in 1..Len(s) : s[i] = t[i]

\* In this step the QR stage returns, from its page loop or from its
\* except clause, after the temporary file was written and closed, the PDF
\* opened and a page of it loaded.
RetornaEtapaQRAbierta ==
    /\ etapa \in {"qr_finally", "qr_except"}
    /\ etapa' \notin {"qr_finally", "qr_except"}
    /\ temp_path /= None
    /\ DocActual.abre
    /\ page_num >= 1

\* C23: in the QR stage, an error while loading or rendering one page does
\* not discard what the other pages yield: the stage still returns QR
\* strings of the pages that decode, the first of them included, in page
\* order.
C23_ErrorDePaginaNoDescarta ==
    [][ ( /\ RetornaEtapaQRAbierta
          /\ ~SinPaginaFallida(DocActual)
          /\ Len(DocActual.paginas) <= MAX_PDF_PAGES )
        => /\ EsPrefijo(qr_codes', QREsperados(DocActual))
           /\ QREsperados(DocActual) /= << >> => qr_codes' /= << >> ]_vars

\* The request has been answered with a table and a total.
RespuestaConTabla ==
    /\ etapa = "respondida"
    /\ "total_registros" \in DOMAIN respuesta
    /\ "tabla_html" \in DOMAIN respuesta

\* C24: in the response of a submit operation (procesar_qr,
\* procesar_imagen_qr_route, procesar_pdf), total_registros equals the
\* number of records in the table rendered for the same response, also
\* when other requests insert records or clear the store between the
\* handler's two calls of obtener_registros.
C24_TotalIgualATabla ==
    RespuestaConTabla => respuesta.total_registros = Len(respuesta.tabla_html)

\* The place of the record x in the sequence L.
Lugar(L, x) == CHOOSE k \in 1..Len(L) : L[k] = x

\* The records of regs with equal FechaEscaneo come in L in the order they
\* have in regs.
EmpatesEnOrden(L, regs) ==
    \A i, j \in 1..Len(regs) :
        (i < j /\ regs[i].FechaEscaneo = regs[j].FechaEscaneo)
        => Lugar(L, regs[i]) < Lugar(L, regs[j])

\* Thread u holds a listing of the records the store holds now, taken when
\* the records with equal FechaEscaneo were stored in today's order.
ListadoVigente(u) ==
    /\ pc[u] = "done"
    /\ op[u] \in {"obtener_todos", "obtener_registros"}
    /\ MismosRegistros(ret[u], Almacen)
    /\ EmpatesEnOrden(ret[u], Almacen)

\* C25: records with equal FechaEscaneo appear in listAll in their insertion
\* order relative to each other, earlier-inserted first (the descending sort
\* is stable); so a second listAll on the same store contents returns the
\* sequence the first returned.
C25_EmpatesEnOrdenDeInsercion ==
    [][ \A t \in Threads :
          ListaDevuelta(t)
          => /\ MismosRegistros(ret'[t], Almacen)
             /\ EmpatesEnOrden(ret'[t], Almacen)
             /\ \A u \in Threads \ {t} : ListadoVigente(u) => ret'[t] = ret[u] ]_vars

\* Both threads hold a listing of the same three records: the two scanned
\* in the same second follow each other as they were inserted, ahead of the
\* record scanned earlier and inserted first.
C25_Witness ==
    /\ Len(Almacen) = 3
    /\ Almacen[2].FechaEscaneo = Almacen[3].FechaEscaneo
    /\ StrLess(Almacen[1].FechaEscaneo, Almacen[2].FechaEscaneo)
    /\ \A t \in Threads :
         /\ pc[t] = "done" /\ op[t] \in {"obtener_todos", "obtener_registros"}
         /\ ret[t] = << Almacen[2], Almacen[3], Almacen[1] >>

(***************************************************************************)
(* The same calls given to RegistroManager and to app.py's store           *)
(***************************************************************************)

\* The caller's calls: those to RegistroManager are kept under EnRegistro,
\* those to app.py under EnApp.
EnRegistro == "t1"
EnApp == "t2"

\* How many calls one store may have been given that the other has not.
MaxPendientes == 1

\* An insert of the dict datos, and a clear, as given to either store.
Insercion(datos) == << "insertar", datos >>
Borrado == << "limpiar" >>

\* The other store.
Otro(almacen) == IF almacen = "registro" THEN "app" ELSE "registro"

\* llamadas keeps, for each store, the calls it has been given since the
\* sequences given to the two stores last were the same: a call that the
\* other store is waiting to be given as well takes it off there, any other
\* call is added here.
AlPaso(almacen, llamada) ==
    /\ llamadas[almacen] = << >>
    /\ llamadas[Otro(almacen)] /= << >>
    /\ Head(llamadas[Otro(almacen)]) = llamada

Dar(almacen, llamada) ==
    IF AlPaso(almacen, llamada)
    THEN llamadas' = [llamadas EXCEPT ![Otro(almacen)] = Tail(@)]
    ELSE /\ Len(llamadas[almacen]) < MaxPendientes
         /\ llamadas' = [llamadas EXCEPT ![almacen] = Append(@, llamada)]

\* manager.agregar(manager.crear_desde_dict(datos)), run to its end.
llamar_agregar(datos) ==
    /\ programa = "ambos"
    /\ SinClave(crear_desde_dict(datos)) \/ PuedeAdquirir(lock, EnRegistro)
    /\ Dar("registro", Insercion(datos))
    /\ registros' = agregar_secuencial(registros, datos)
    /\ op' = [op EXCEPT ![EnRegistro] = "agregar"]
    /\ arg' = [arg EXCEPT ![EnRegistro] = datos]
    /\ ret' = [ret EXCEPT ![EnRegistro] = agregar_retorno(registros, datos)]
    /\ UNCHANGED << programa, entradas, inicial, lock, REGISTROS, LOCK, pc, refs >>
    /\ UNCHANGED << etapa, solicitud, disco, temp_path, page_num, qr_codes, texto,
                    resultado, respuesta >>

\* guardar_registro(datos), run to its end.
llamar_guardar_registro(datos) ==
    /\ programa = "ambos"
    /\ SinClaveApp(datos) \/ PuedeAdquirir(LOCK, EnApp)
    /\ Dar("app", Insercion(datos))
    /\ REGISTROS' = guardar_secuencial(REGISTROS, datos)
    /\ op' = [op EXCEPT ![EnApp] = "guardar_registro"]
    /\ arg' = [arg EXCEPT ![EnApp] = datos]
    /\ ret' = [ret EXCEPT ![EnApp] = guardar_retorno(REGISTROS, datos)]
    /\ UNCHANGED << programa, entradas, inicial, registros, lock, LOCK, pc, refs >>
    /\ UNCHANGED << etapa, solicitud, disco, temp_path, page_num, qr_codes, texto,
                    resultado, respuesta >>

\* manager.limpiar()
llamar_limpiar ==
    /\ programa = "ambos"
    /\ PuedeAdquirir(lock, EnRegistro)
    /\ Dar("registro", Borrado)
    /\ registros' = << >>
    /\ op' = [op EXCEPT ![EnRegistro] = "limpiar"]
    /\ arg' = [arg EXCEPT ![EnRegistro] = NoArg]
    /\ ret' = [ret EXCEPT ![EnRegistro] = << TRUE, MensajeLimpiar(Len(registros)) >>]
    /\ UNCHANGED << programa, entradas, inicial, lock, REGISTROS, LOCK, pc, refs >>
    /\ UNCHANGED << etapa, solicitud, disco, temp_path, page_num, qr_codes, texto,
                    resultado, respuesta >>

\* The route limpiar_registros.
llamar_limpiar_registros ==
    /\ programa = "ambos"
    /\ PuedeAdquirir(LOCK, EnApp)
    /\ Dar("app", Borrado)
    /\ REGISTROS' = << >>
    /\ op' = [op EXCEPT ![EnApp] = "limpiar_registros"]
    /\ arg' = [arg EXCEPT ![EnApp] = NoArg]
    /\ ret' = [ret EXCEPT ![EnApp] = RespuestaLimpiar]
    /\ UNCHANGED << programa, entradas, inicial, registros, lock, LOCK, pc, refs >>
    /\ UNCHANGED << etapa, solicitud, disco, temp_path, page_num, qr_codes, texto,
                    resultado, respuesta >>

InitAmbos ==
    /\ programa = "ambos"
    /\ entradas \in Universos
    /\ inicial = << >>
    /\ registros = << >>
    /\ lock = NoOwner
    /\ REGISTROS = << >>
    /\ LOCK = NoOwner
    /\ pc = [t \in Threads |-> "idle"]
    /\ op = [t \in Threads |-> NoOp]
    /\ arg = [t \in Threads |-> NoArg]
    /\ ret = [t \in Threads |-> NoRet]
    /\ refs = [t \in Threads |-> << >>]
    /\ etapa = "libre"
    /\ solicitud = NoArg
    /\ disco = {}
    /\ temp_path = None
    /\ page_num = 0
    /\ qr_codes = << >>
    /\ texto = ""
    /\ llamadas = [registro |-> << >>, app |-> << >>]
    /\ resultado = NoRet
    /\ respuesta = NoRet

NextAmbos ==
    \/ \E datos \in entradas : llamar_agregar(datos)
    \/ \E datos \in entradas : llamar_guardar_registro(datos)
    \/ llamar_limpiar
    \/ llamar_limpiar_registros

SpecAmbos == InitAmbos /\ [][NextAmbos]_vars

\* The records of RegistroManager's store as dicts.
ComoDicts(regs) == [ i \in 1..Len(regs) |-> to_dict(regs[i]) ]

\* Both stores have been given the same sequence of calls.
MismasLlamadas ==
    /\ programa = "ambos"
    /\ llamadas["registro"] = << >>
    /\ llamadas["app"] = << >>

\* The last call of that sequence is an insert.
InsertadoEnAmbos == op[EnRegistro] = "agregar" /\ op[EnApp] = "guardar_registro"

\* C26: the two store implementations agree: for every sequence of inserts
\* and clears given to both app.py's store and RegistroManager (records
\* built with crear_desde_dict), each insert gets the same success flag in
\* both, and both stores hold the same records in the same insertion order
\* after every step, as long as the number of stored records stays below
\* Config.MAX_REGISTROS_MEMORIA.
C26_AlmacenesDeAcuerdo ==
    (/\ MismasLlamadas
     /\ Len(registros) < MAX_REGISTROS_MEMORIA
     /\ Len(REGISTROS) < MAX_REGISTROS_MEMORIA)
    => /\ InsertadoEnAmbos => ret[EnRegistro][1] = ret[EnApp][1]
       /\ REGISTROS = ComoDicts(registros)

\* Both stores have been given the same calls, hold the same two records
\* and have rejected the last insert as a duplicate, each with its own
\* message.
C26_Witness ==
    /\ MismasLlamadas
    /\ Len(registros) = 2 /\ REGISTROS = ComoDicts(registros)
    /\ InsertadoEnAmbos
    /\ arg[EnRegistro] = arg[EnApp]
    /\ ret[EnRegistro][1] = FALSE /\ ret[EnApp][1] = FALSE
    /\ ret[EnRegistro][2] /= ret[EnApp][2]
    /\ \E i \in 1..2 : registros[i].Folio = "" /\ registros[i].CURP /= ""

=============================================================================
